---- MODULE Spec2Model ----
(***************************************************************************)
(* Verification model of ACN_bgp-automation.                               *)
(*                                                                         *)
(*   SpecDeploy : orchestrator.py main() driving build_topology.py         *)
(*                (validate_data) and build_configs.py, then the upload.   *)
(*   Spec       : manager.py manage_pipeline(), with the optimizers and    *)
(*                the set_med / set_local_pref wrappers it calls.          *)
(*   SpecLive   : Spec with the fairness of a running process.             *)
(*   SpecRuns   : manager.py started again after a run has ended.          *)
(*   SpecResolve: the node loop of build_configs.py on its own.            *)
(*   SpecOpt    : the two optimizers on bounded matrices.                  *)
(*                                                                         *)
(* An IPv4 address string is modelled as its tuple of decimal octets and a *)
(* mask string "/n" as the number n; parsing is what ipaddress does with   *)
(* them (range checks, 32-bit value, network = value masked by prefix).    *)
(***************************************************************************)
EXTENDS Integers, Sequences, FiniteSets, TLC

VARIABLES
    topo,               \* content of topology/data.yaml
    fail_budget,        \* remote commands the environment lets fail
    \* ---- orchestrator.py / build_topology.py / build_configs.py
    d_pc,               \* position of orchestrator.main
    reported,           \* violations printed by validate_data
    clab_written,       \* topology/network.clab.yml written
    configs_generated,  \* configs/*.conf written
    uploaded,           \* artefacts copied to the remote host
    d_exit,             \* exit status of the orchestrator process (-1: running)
    \* ---- manager.py
    pc,                 \* position of manage_pipeline
    run,                \* number of the manager run (0: never started)
    routers,            \* per container: the route-map configuration applied to it
    traffic_json,       \* content of automation/traffic_matrix.json
    raw_matrix,         \* raw_matrix read in step 2
    dec_matrix_ce_pe,   \* ingress decision matrix (step 3)
    agg_matrix,         \* aggregate load matrix (step 5)
    caps,               \* <<cap_gw1, cap_gw2>> read in step 6
    dec_matrix_pe_gw,   \* egress decision matrix (step 6)
    cur,                \* calls already made by the loop of step 4 / step 7
    seq_med,            \* seq_med counter of step 4
    seq_lp,             \* seq_lp counter of step 7
    emitted,            \* set_med / set_local_pref calls made so far, in order,
                        \* over all runs
    applied,            \* calls whose configuration batch was accepted by the router
    failed,             \* calls that ended in an [ERR] branch
    soft_resets,        \* soft resets issued
    final_paths,        \* content of final_routing_paths.json
    failure,            \* what ended the run early ("none" while it has not)
    exit_code,          \* exit status of the manager process (-1: running)
    \* ---- build_configs.py, node by node
    b_pc,               \* position of the script: "loop", "done", "crashed"
    b_idx,              \* index of the node the loop of line 59 is at
    derivations,        \* per node: the writes made to neighbors_dict, in order
    neighbors,          \* per node: neighbors_dict when its config was rendered
    \* ---- the two optimizers and the aggregation called on their own
    o_pc,               \* which call comes next
    o_matrix,           \* matrice_input
    o_caps,             \* <<cap1, cap2>>
    o_vec_pe,           \* vector returned by ottimizzazione_scelta_PE
    o_agg,              \* aggregate of o_matrix under o_vec_pe
    o_vec_gw            \* vector returned by ottimizzazione_scelta_GW

deployVars == <<d_pc, reported, clab_written, configs_generated, uploaded, d_exit>>

pipeVars == <<pc, run, routers, traffic_json, raw_matrix, dec_matrix_ce_pe, agg_matrix, caps,
              dec_matrix_pe_gw, cur, seq_med, seq_lp, emitted, applied, failed,
              soft_resets, final_paths, failure, exit_code>>

resolveVars == <<b_pc, b_idx, derivations, neighbors>>

optVars == <<o_pc, o_matrix, o_caps, o_vec_pe, o_agg, o_vec_gw>>

vars == <<topo, fail_budget, deployVars, pipeVars, resolveVars, optVars>>

-----------------------------------------------------------------------------
(* Generic helpers *)

Range(s) == {s[k] : k \in DOMAIN s}

RECURSIVE SumTo(_, _)
SumTo(s, n) == IF n = 0 THEN 0 ELSE s[n] + SumTo(s, n - 1)

\* sum of the elements of a sequence
SeqSum(s) == SumTo(s, Len(s))

RECURSIVE ConcatTo(_, _)
ConcatTo(ss, n) == IF n = 0 THEN <<>> ELSE ConcatTo(ss, n - 1) \o ss[n]

\* concatenation of a sequence of sequences
Concat(ss) == ConcatTo(ss, Len(ss))

\* the empty dict
EmptyMap == [x \in {} |-> x]

-----------------------------------------------------------------------------
(* Topology documents *)

NoAddr == <<>>          \* key 'ipv4_address' absent
NoMask == 0 - 1         \* key 'ipv4_mask' absent
NoAsn  == 0             \* key 'bgp' absent
NoCap  == 0 - 1         \* key 'capacity' absent

Iface(name, addr, mask) == [name |-> name, ipv4_address |-> addr, ipv4_mask |-> mask]

Node(name, role, asn, addr, ifaces) ==
    [name |-> name, role |-> role, asn |-> asn, ipv4_address |-> addr,
     interfaces |-> ifaces]

Link(a, a_port, b, b_port, capacity) ==
    [a |-> a, a_port |-> a_port, b |-> b, b_port |-> b_port, capacity |-> capacity]

-----------------------------------------------------------------------------
(* ipaddress.ip_interface *)

AddrBits == 32
MaxOctet == 255

\* ip_interface(f"{ip}{mask}") raises ValueError unless this holds
ParseOk(addr, mask) ==
    /\ Len(addr) = 4
    /\ \A k \in 1..4 : addr[k] \in 0..MaxOctet
    /\ mask \in 0..AddrBits

IpValue(addr) == ((addr[1] * 256 + addr[2]) * 256 + addr[3]) * 256 + addr[4]

\* the IPv4Interface object: address value and prefix length
ip_interface(addr, mask) == [ip |-> IpValue(addr), plen |-> mask]

\* IPv4Interface.network: the address masked by the prefix, with the prefix
network(ifobj) ==
    [net |-> ifobj.ip - (ifobj.ip % (2 ^ (AddrBits - ifobj.plen))), plen |-> ifobj.plen]

\* IPv4Network.num_addresses
num_addresses(net) == 2 ^ (AddrBits - net.plen)

-----------------------------------------------------------------------------
(* build_topology.py : validate_data *)

Err(kind, ip, a, b) == [kind |-> kind, ip |-> ip, a |-> a, b |-> b]

NoEnd == <<"", "">>

\* (node name, interface) pairs in the order the two nested loops visit them
RECURSIVE FlattenIfaces(_)
FlattenIfaces(nodes) ==
    IF nodes = <<>> THEN <<>>
    ELSE [k \in 1..Len(Head(nodes).interfaces) |->
              [node |-> Head(nodes).name, iface |-> Head(nodes).interfaces[k]]]
         \o FlattenIfaces(Tail(nodes))

\* lines 17-22: errors = [], seen_ips = {}, interface_map = {}
ScanStart == [seen_ips |-> EmptyMap, interface_map |-> EmptyMap, errors |-> <<>>]

\* the loop body without the duplicate check of lines 42-46
ScanOne_noDupCheck(st, x) ==
    LET ifc == x.iface
        key == <<x.node, ifc.name>>
    IN  IF ifc.ipv4_address = NoAddr \/ ifc.ipv4_mask = NoMask THEN st
        ELSE IF ParseOk(ifc.ipv4_address, ifc.ipv4_mask)
             THEN [st EXCEPT !.interface_map =
                       (key :> ip_interface(ifc.ipv4_address, ifc.ipv4_mask)) @@ @]
             ELSE [st EXCEPT !.errors = Append(@, Err("INVALID IP", ifc.ipv4_address, key, NoEnd))]

\* the same loop body leaving the loop's scan at the first violation found
ScanOne_stopAtFirst(st, x) ==
    LET ifc == x.iface
        key == <<x.node, ifc.name>>
    IN  IF st.errors # <<>> THEN st
        ELSE IF ifc.ipv4_address = NoAddr \/ ifc.ipv4_mask = NoMask THEN st
        ELSE
          LET st1 == IF ifc.ipv4_address \in DOMAIN st.seen_ips
                     THEN [st EXCEPT !.errors =
                               Append(@, Err("DUPLICATE IP", ifc.ipv4_address,
                                             st.seen_ips[ifc.ipv4_address], key))]
                     ELSE [st EXCEPT !.seen_ips = (ifc.ipv4_address :> key) @@ @]
          IN  IF st1.errors # <<>> THEN st1
              ELSE IF ParseOk(ifc.ipv4_address, ifc.ipv4_mask)
                   THEN [st1 EXCEPT !.interface_map =
                             (key :> ip_interface(ifc.ipv4_address, ifc.ipv4_mask)) @@ @]
                   ELSE [st1 EXCEPT !.errors =
                             Append(@, Err("INVALID IP", ifc.ipv4_address, key, NoEnd))]

\* body of the interface loop for one interface, lines 32-55
ScanOne(st, x) ==
    LET ifc == x.iface
        key == <<x.node, ifc.name>>
    IN  \* line 34: interfaces without address or mask are skipped
        IF ifc.ipv4_address = NoAddr \/ ifc.ipv4_mask = NoMask THEN st
        ELSE
          LET \* lines 42-46: duplicate check on the address string
              st1 == IF ifc.ipv4_address \in DOMAIN st.seen_ips
                     THEN [st EXCEPT !.errors =
                               Append(@, Err("DUPLICATE IP", ifc.ipv4_address,
                                             st.seen_ips[ifc.ipv4_address], key))]
                     ELSE [st EXCEPT !.seen_ips = (ifc.ipv4_address :> key) @@ @]
          IN  \* lines 49-55: parse, remember the interface object or report it
              IF ParseOk(ifc.ipv4_address, ifc.ipv4_mask)
              THEN [st1 EXCEPT !.interface_map =
                        (key :> ip_interface(ifc.ipv4_address, ifc.ipv4_mask)) @@ @]
              ELSE [st1 EXCEPT !.errors =
                        Append(@, Err("INVALID IP", ifc.ipv4_address, key, NoEnd))]

RECURSIVE ScanIfaces(_, _)
ScanIfaces(st, xs) ==
    IF xs = <<>> THEN st ELSE ScanIfaces(ScanOne(st, Head(xs)), Tail(xs))

\* line 70 with the comparison made on the addresses instead of the networks
SubnetDiffers_hostCompare(ip_a, ip_b) == ip_a.ip # ip_b.ip

\* line 70: ip_a.network != ip_b.network
SubnetDiffers(ip_a, ip_b) == network(ip_a) # network(ip_b)

\* line 76: ip_a.network.num_addresses < 2
MaskTooSmall(ip_a, ip_b) == num_addresses(network(ip_a)) < 2

\* body of the link loop for one link, lines 60-77
CheckLink(interface_map, link) ==
    LET endpoint_a == <<link.a, link.a_port>>
        endpoint_b == <<link.b, link.b_port>>
    IN  IF endpoint_a \in DOMAIN interface_map /\ endpoint_b \in DOMAIN interface_map
        THEN LET ip_a == interface_map[endpoint_a]
                 ip_b == interface_map[endpoint_b]
             IN  (IF SubnetDiffers(ip_a, ip_b)
                  THEN <<Err("SUBNET MISMATCH", NoAddr, endpoint_a, endpoint_b)>>
                  ELSE <<>>)
                 \o
                 (IF MaskTooSmall(ip_a, ip_b)
                  THEN <<Err("MASK TOO SMALL", NoAddr, endpoint_a, endpoint_b)>>
                  ELSE <<>>)
        ELSE <<>>

RECURSIVE ScanLinks(_, _)
ScanLinks(interface_map, links) ==
    IF links = <<>> THEN <<>>
    ELSE CheckLink(interface_map, Head(links)) \o ScanLinks(interface_map, Tail(links))

\* the list `errors` at line 80
validate_data(data) ==
    LET st == ScanIfaces(ScanStart, FlattenIfaces(data.nodes))
    IN  st.errors \o ScanLinks(st.interface_map, data.links)

-----------------------------------------------------------------------------
(* Topologies given to the deployment: a chain of NumNodes nodes, one      *)
(* addressed or unaddressed interface each, consecutive nodes linked; the  *)
(* last node is a host, the others are BGP routers.                        *)

NumNodes == 3

ChainNames == <<"n1", "n2", "n3", "n4", "n5">>

IpPool == {<<10, 0, 1, 1>>, <<10, 0, 1, 2>>, <<10, 0, 2, 1>>, <<10, 0, 1, 256>>}

MaskPool == {24, 31, 32, 33}

\* what one interface entry may carry: nothing, or an address and a mask
IfaceChoices ==
    {<<NoAddr, NoMask>>} \cup (IpPool \X MaskPool)

ChainTopology(choice) ==
    [nodes |-> [k \in 1..NumNodes |->
                   Node(ChainNames[k],
                        IF k = NumNodes THEN "host" ELSE "router",
                        IF k = NumNodes THEN NoAsn ELSE 65020,
                        NoAddr,
                        <<Iface("eth0", choice[k][1], choice[k][2])>>)],
     links |-> [k \in 1..(NumNodes - 1) |->
                   Link(ChainNames[k], "eth0", ChainNames[k + 1], "eth0", NoCap)]]

ChainTopologies == {ChainTopology(c) : c \in [1..NumNodes -> IfaceChoices]}

-----------------------------------------------------------------------------
(* orchestrator.py main, build_topology.py main script, build_configs.py *)

Running == 0 - 1

\* build_configs.py line 74: iface['ipv4_mask'] of every interface of a BGP node
\* is read; a missing key ends the script with a KeyError
BuildConfigsCrashes(data) ==
    \E k \in DOMAIN data.nodes :
        /\ data.nodes[k].role # "host"
        /\ data.nodes[k].asn # NoAsn
        /\ \E m \in DOMAIN data.nodes[k].interfaces :
               data.nodes[k].interfaces[m].ipv4_mask = NoMask

\* What a run of build_topology.py leaves behind when validate_data found
\* `errs`: the errors are printed and, if any, sys.exit(1) precedes the write.
\* First the same run with the lab file written before the errors are looked at.
BuildTopologyOutcome_writeFirst(errs) ==
    [reported |-> errs, written |-> TRUE, status |-> IF errs # <<>> THEN 1 ELSE 0]

\* build_topology.py lines 79-87 and 111-116
BuildTopologyOutcome(errs) ==
    IF errs # <<>>
    THEN [reported |-> errs, written |-> FALSE, status |-> 1]
    ELSE [reported |-> <<>>, written |-> TRUE, status |-> 0]

\* orchestrator.py line 148: run_script(build_topology.py)
RunBuildTopology ==
    /\ d_pc = "build_topology"
    /\ LET out == BuildTopologyOutcome(validate_data(topo))
       IN  /\ reported' = out.reported
           /\ clab_written' = out.written
           \* run_script lines 60-67: a non-zero status makes the orchestrator exit 1
           /\ IF out.status # 0
              THEN d_pc' = "exit" /\ d_exit' = 1
              ELSE d_pc' = "build_configs" /\ d_exit' = d_exit
    /\ UNCHANGED <<topo, fail_budget, resolveVars, optVars, configs_generated, uploaded, pipeVars>>

\* orchestrator.py line 152: run_script(build_configs.py)
RunBuildConfigs ==
    /\ d_pc = "build_configs"
    /\ IF BuildConfigsCrashes(topo)
       THEN d_pc' = "exit" /\ d_exit' = 1 /\ UNCHANGED configs_generated
       ELSE d_pc' = "upload" /\ configs_generated' = TRUE /\ UNCHANGED d_exit
    /\ UNCHANGED <<topo, fail_budget, resolveVars, optVars, reported, clab_written, uploaded, pipeVars>>

\* orchestrator.py line 155: upload_selected_files; the SSH/SCP session may fail
Upload ==
    /\ d_pc = "upload"
    /\ \E ok \in BOOLEAN :
          IF ok
          THEN d_pc' = "exit" /\ uploaded' = TRUE /\ d_exit' = 0
          ELSE d_pc' = "exit" /\ uploaded' = FALSE /\ d_exit' = 1
    /\ UNCHANGED <<topo, fail_budget, resolveVars, optVars, reported, clab_written, configs_generated, pipeVars>>

PipeIdle ==
    /\ fail_budget = 0
    /\ pc = "idle" /\ run = 0 /\ routers = EmptyMap /\ traffic_json = <<>> /\ raw_matrix = <<>>
    /\ dec_matrix_ce_pe = <<>> /\ agg_matrix = <<>> /\ caps = <<>>
    /\ dec_matrix_pe_gw = <<>> /\ cur = 0 /\ seq_med = 0 /\ seq_lp = 0
    /\ emitted = <<>> /\ applied = {} /\ failed = {} /\ soft_resets = <<>>
    /\ final_paths = <<>> /\ failure = "none" /\ exit_code = Running

ResolveIdle ==
    /\ b_pc = "idle" /\ b_idx = 0 /\ derivations = EmptyMap /\ neighbors = EmptyMap

OptIdle ==
    /\ o_pc = "idle" /\ o_matrix = <<>> /\ o_caps = <<>> /\ o_vec_pe = <<>>
    /\ o_agg = <<>> /\ o_vec_gw = <<>>

InitDeploy ==
    /\ topo \in ChainTopologies
    /\ ResolveIdle
    /\ OptIdle
    /\ d_pc = "build_topology"
    /\ reported = <<>>
    /\ clab_written = FALSE
    /\ configs_generated = FALSE
    /\ uploaded = FALSE
    /\ d_exit = Running
    /\ PipeIdle

NextDeploy == RunBuildTopology \/ RunBuildConfigs \/ Upload

SpecDeploy == InitDeploy /\ [][NextDeploy]_vars

-----------------------------------------------------------------------------
(* Topologies the manager runs against: two customer routers ce1, ce2,     *)
(* the edge routers pe1, pe2, the gateways gw1, gw2 behind the bridge br1  *)
(* and two destination routers r1, r2 reached over the upstream links.     *)
(* gw1 lists its bridge-facing interface first, gw2 its upstream interface. *)
(* A variant says which link, address or capacity of the reference         *)
(* topology is different.                                                  *)

CapChoices == {<<0, 0>>, <<2, 1>>, <<NoCap, NoCap>>}

\* the duplicate address, and capacities written on the upstream links, are
\* combined with no other difference
Variants ==
    {v \in [nolink : BOOLEAN,      \* the link pe1 - ce1 is missing
            noaddr : BOOLEAN,      \* r1 has no node-level ipv4_address
            dup    : BOOLEAN,      \* ce2:eth0 repeats the address of ce1:eth0
            caps   : CapChoices] : \* capacities of the two upstream links
        /\ v.dup => ~(v.nolink \/ v.noaddr)
        /\ v.caps # <<NoCap, NoCap>> => ~(v.nolink \/ v.noaddr \/ v.dup)}

PipeNodes(v) ==
    << Node("pe2", "pe", 65020, NoAddr,
            <<Iface("eth0", <<10, 1, 2, 2>>, 24), Iface("eth1", <<10, 2, 2, 2>>, 24),
              Iface("eth2", <<10, 0, 0, 2>>, 24)>>),
       Node("pe1", "pe", 65020, NoAddr,
            <<Iface("eth0", <<10, 1, 1, 2>>, 24), Iface("eth1", <<10, 2, 1, 2>>, 24),
              Iface("eth2", <<10, 0, 0, 1>>, 24)>>),
       Node("ce2", "ce", 65002, NoAddr,
            <<Iface("eth0", IF v.dup THEN <<10, 1, 1, 1>> ELSE <<10, 2, 1, 1>>, 24),
              Iface("eth1", <<10, 2, 2, 1>>, 24)>>),
       Node("ce1", "ce", 65001, NoAddr,
            <<Iface("eth0", <<10, 1, 1, 1>>, 24), Iface("eth1", <<10, 1, 2, 1>>, 24)>>),
       Node("gw1", "gw", 65020, NoAddr,
            <<Iface("eth0", <<10, 0, 0, 11>>, 24), Iface("eth1", <<10, 9, 1, 1>>, 24)>>),
       Node("gw2", "gw", 65020, NoAddr,
            <<Iface("eth1", <<10, 9, 2, 1>>, 24), Iface("eth0", <<10, 0, 0, 12>>, 24)>>),
       Node("br1", "bridge", NoAsn, NoAddr, <<>>),
       Node("r2", "router", 65100, <<10, 255, 0, 2>>,
            <<Iface("eth0", <<10, 9, 2, 2>>, 24)>>),
       Node("r1", "router", 65100, IF v.noaddr THEN NoAddr ELSE <<10, 255, 0, 1>>,
            <<Iface("eth0", <<10, 9, 1, 2>>, 24)>>) >>

PipeLinks(v) ==
    (IF v.nolink THEN <<>> ELSE <<Link("pe1", "eth0", "ce1", "eth0", NoCap)>>)
    \o
    << Link("ce1", "eth1", "pe2", "eth0", NoCap),
       Link("pe1", "eth1", "ce2", "eth0", NoCap),
       Link("pe2", "eth1", "ce2", "eth1", NoCap),
       Link("pe1", "eth2", "br1", "p1", NoCap),
       Link("pe2", "eth2", "br1", "p2", NoCap),
       Link("gw1", "eth0", "br1", "p3", NoCap),
       Link("gw2", "eth0", "br1", "p4", NoCap),
       Link("gw1", "eth1", "r1", "eth0", v.caps[1]),
       Link("r2", "eth0", "gw2", "eth1", v.caps[2]) >>

PipeTopology(v) == [nodes |-> PipeNodes(v), links |-> PipeLinks(v)]

PipeTopologies == {PipeTopology(v) : v \in Variants}

\* lexicographic order of the node names, as list.sort() compares them
NameOrder == <<"br1", "ce1", "ce2", "gw1", "gw2", "pe1", "pe2", "r1", "r2">>

NameRank(name) == CHOOSE k \in DOMAIN NameOrder : NameOrder[k] = name

\* the sorted list of a set of names
RECURSIVE SortNames(_)
SortNames(S) ==
    IF S = {} THEN <<>>
    ELSE LET least == CHOOSE n \in S : \A m \in S : NameRank(n) <= NameRank(m)
         IN  <<least>> \o SortNames(S \ {least})

\* next(n for n in topo['nodes'] if n['name'] == name): index of the node, 0 if none
NodeIndex(data, name) ==
    IF \E k \in DOMAIN data.nodes : data.nodes[k].name = name
    THEN CHOOSE k \in DOMAIN data.nodes :
            /\ data.nodes[k].name = name
            /\ \A m \in DOMAIN data.nodes : data.nodes[m].name = name => k <= m
    ELSE 0

-----------------------------------------------------------------------------
(* generate_traffic.py *)

MaxVol == 2     \* largest generated volume (random.randint(1, 100) in the source)

NoFile == <<>>

NamesWithRole(data, role) ==
    {data.nodes[k].name : k \in {n \in DOMAIN data.nodes : data.nodes[n].role = role}}

\* load_topology_data: the three sorted name lists
load_topology_data(data) ==
    [source_routers       |-> SortNames(NamesWithRole(data, "ce")),
     pe_routers           |-> SortNames(NamesWithRole(data, "pe")),
     destinations_routers |-> SortNames(NamesWithRole(data, "router"))]

\* generate_traffic_matrix: every row has one zero, at a random index, and
\* random positive volumes elsewhere
GeneratedRows(nd) ==
    {row \in [1..nd -> 0..MaxVol] : Cardinality({k \in 1..nd : row[k] = 0}) = 1}

GeneratedMatrices(ns, nd) == [1..ns -> GeneratedRows(nd)]

\* save_to_json: the document written to traffic_matrix.json; its timestamp
\* (the time of the run) is the number of the run
TrafficDocument(lists, matrix) ==
    [timestamp            |-> run,
     source_routers       |-> lists.source_routers,
     pe_routers           |-> lists.pe_routers,
     destinations_routers |-> lists.destinations_routers,
     traffic_matrix_raw   |-> matrix]

-----------------------------------------------------------------------------
(* optimizer_CE_PE.py and optimizer_PE_GW.py *)

\* matrice.reshape(-1, order="C"): the cells in row-major order
Flatten(matrix) ==
    IF matrix = <<>> THEN <<>>
    ELSE LET nd == Len(matrix[1])
         IN  [k \in 1..(Len(matrix) * nd) |-> matrix[((k - 1) \div nd) + 1][((k - 1) % nd) + 1]]

\* vettore.reshape((rows, cols))
Reshape(vec, rows, cols) ==
    [r \in 1..rows |-> [c \in 1..cols |-> vec[(r - 1) * cols + c]]]

BinaryVectors(n) == [1..n -> {0, 1}]

\* sum of c[i] * x[i]
Dot(c, x) == SeqSum([k \in DOMAIN c |-> c[k] * x[k]])

Abs(n) == IF n < 0 THEN 0 - n ELSE n

\* the least t allowed by the two constraints of _solve_partitioning_milp:
\* 2 c.x - Csum <= t and Csum - 2 c.x <= t, t >= 0
Imbalance(c, x) == Abs(2 * Dot(c, x) - SeqSum(c))

\* a solver that returns any feasible point instead of one of least objective
PartitionOptima_anyFeasible(c) == BinaryVectors(Len(c))

\* the solutions milp may return: the binary vectors of least objective
PartitionOptima(c) ==
    LET values == {Imbalance(c, x) : x \in BinaryVectors(Len(c))}
        best   == CHOOSE v \in values : \A w \in values : v <= w
    IN  {x \in BinaryVectors(Len(c)) : Imbalance(c, x) = best}

\* x + 1 without the np.where mask on the empty cells
ChoiceVector_noMask(c, x) == [k \in DOMAIN c |-> x[k] + 1]

\* np.where(c != 0, x + 1, 0)
ChoiceVector(c, x) == [k \in DOMAIN c |-> IF c[k] # 0 THEN x[k] + 1 ELSE 0]

\* the vectors ottimizzazione_scelta_PE may return for a matrix
ottimizzazione_scelta_PE(matrix) ==
    LET c == Flatten(matrix)
    IN  {ChoiceVector(c, x) : x \in PartitionOptima(c)}

\* a non-negative fraction <<numerator, denominator>>, denominator > 0
FracLe(p, q) == p[1] * q[2] <= q[1] * p[2]

FracMax(p, q) == IF FracLe(p, q) THEN q ELSE p

\* _solve_minimax_saturation: some t >= 0 satisfies
\* c.x <= cap2 * t and Csum - c.x <= cap1 * t
SaturationFeasible(c, x, cap1, cap2) ==
    /\ (cap2 = 0 => Dot(c, x) = 0)
    /\ (cap1 = 0 => SeqSum(c) - Dot(c, x) = 0)

\* the least such t
Saturation(c, x, cap1, cap2) ==
    FracMax(IF cap1 = 0 THEN <<0, 1>> ELSE <<SeqSum(c) - Dot(c, x), cap1>>,
            IF cap2 = 0 THEN <<0, 1>> ELSE <<Dot(c, x), cap2>>)

\* a solver that returns any feasible point instead of one of least objective
MinimaxOptima_anyFeasible(c, cap1, cap2) ==
    {x \in BinaryVectors(Len(c)) : SaturationFeasible(c, x, cap1, cap2)}

\* the solutions milp may return; empty when res.success is false
MinimaxOptima(c, cap1, cap2) ==
    LET feasible == {x \in BinaryVectors(Len(c)) : SaturationFeasible(c, x, cap1, cap2)}
        values   == {Saturation(c, x, cap1, cap2) : x \in feasible}
        best     == CHOOSE v \in values : \A w \in values : FracLe(v, w)
    IN  IF feasible = {} THEN {}
        ELSE {x \in feasible : FracLe(Saturation(c, x, cap1, cap2), best)}

\* the vectors ottimizzazione_scelta_GW may return; empty when it raises
ottimizzazione_scelta_GW(cap1, cap2, matrix) ==
    LET c == Flatten(matrix)
    IN  {ChoiceVector(c, x) : x \in MinimaxOptima(c, cap1, cap2)}

-----------------------------------------------------------------------------
(* manager.py : pure parts of manage_pipeline *)

DefaultCapacity == 100
default_med == 100
default_local_pref == 100
SeqStart == 10
SeqStep == 10

\* get_gw_capacities: the last link with a capacity that touches gw1 / gw2
RECURSIVE ScanCapacities(_, _)
ScanCapacities(links, acc) ==
    IF links = <<>> THEN acc
    ELSE LET l == Head(links)
             c1 == IF l.capacity # NoCap /\ (l.a = "gw1" \/ l.b = "gw1")
                   THEN l.capacity ELSE acc[1]
             c2 == IF l.capacity # NoCap /\ (l.a = "gw2" \/ l.b = "gw2")
                   THEN l.capacity ELSE acc[2]
         IN  ScanCapacities(Tail(links), <<c1, c2>>)

get_gw_capacities(data) == ScanCapacities(data.links, <<DefaultCapacity, DefaultCapacity>>)

\* (i, j) for i in range(rows) for j in range(cols)
Cells(rows, cols) ==
    [k \in 1..(rows * cols) |-> <<((k - 1) \div cols) + 1, ((k - 1) % cols) + 1>>]

PeLabel(idx) == IF idx = 1 THEN "pe1" ELSE IF idx = 2 THEN "pe2" ELSE "pe0"
GwLabel(idx) == IF idx = 1 THEN "gw1" ELSE IF idx = 2 THEN "gw2" ELSE "gw0"

\* step 4 with the same MED given to the chosen PE and to the other one
MedPlan_flatMed(srcs, dsts, dec) ==
    Concat([k \in 1..(Len(srcs) * Len(dsts)) |->
        LET i == Cells(Len(srcs), Len(dsts))[k][1]
            j == Cells(Len(srcs), Len(dsts))[k][2]
        IN  IF dec[i][j] = 0 THEN <<>>
            ELSE [pe_idx \in 1..2 |->
                    [attr |-> "med", node |-> PeLabel(pe_idx), neighbor |-> srcs[i],
                     value |-> default_med, destination |-> dsts[j]]]])

\* step 4, lines 113-135: the set_med calls of one run, in order, without
\* their sequence numbers
MedPlan(srcs, dsts, dec) ==
    Concat([k \in 1..(Len(srcs) * Len(dsts)) |->
        LET i == Cells(Len(srcs), Len(dsts))[k][1]
            j == Cells(Len(srcs), Len(dsts))[k][2]
            choice == dec[i][j]
        IN  IF choice = 0 THEN <<>>
            ELSE [pe_idx \in 1..2 |->
                    [attr |-> "med", node |-> PeLabel(pe_idx), neighbor |-> srcs[i],
                     value |-> IF pe_idx = choice THEN default_med ELSE default_med + 100,
                     destination |-> dsts[j]]]])

\* step 5 with = in place of += at lines 149-150: the last cell of a column wins
Aggregate_overwrite(raw, dec) ==
    IF raw = <<>> THEN <<>>
    ELSE [r \in 1..2 |-> [j \in 1..Len(raw[1]) |->
            LET rows == {i \in 1..Len(raw) : dec[i][j] = r}
            IN  IF rows = {} THEN 0
                ELSE raw[CHOOSE i \in rows : \A m \in rows : m <= i][j]]]

\* step 5, lines 144-150
Aggregate(raw, dec) ==
    IF raw = <<>> THEN <<>>
    ELSE [r \in 1..2 |-> [j \in 1..Len(raw[1]) |->
            SeqSum([i \in 1..Len(raw) |-> IF dec[i][j] = r THEN raw[i][j] ELSE 0])]]

\* step 7 calling set_local_pref for the chosen gateway only
LpPlan_chosenOnly(pe_list, dsts, dec) ==
    Concat([k \in 1..(Len(pe_list) * Len(dsts)) |->
        LET i == Cells(Len(pe_list), Len(dsts))[k][1]
            j == Cells(Len(pe_list), Len(dsts))[k][2]
        IN  IF dec[i][j] = 0 THEN <<>>
            ELSE <<[attr |-> "local_pref", node |-> pe_list[i],
                    neighbor |-> GwLabel(dec[i][j]),
                    value |-> default_local_pref + 100, destination |-> dsts[j]]>>])

\* step 7, lines 189-212: the set_local_pref calls of one run, in order
LpPlan(pe_list, dsts, dec) ==
    Concat([k \in 1..(Len(pe_list) * Len(dsts)) |->
        LET i == Cells(Len(pe_list), Len(dsts))[k][1]
            j == Cells(Len(pe_list), Len(dsts))[k][2]
            gw_choice == dec[i][j]
        IN  IF gw_choice = 0 THEN <<>>
            ELSE [gw_idx \in 1..2 |->
                    [attr |-> "local_pref", node |-> pe_list[i], neighbor |-> GwLabel(gw_idx),
                     value |-> IF gw_idx = gw_choice THEN default_local_pref + 100
                               ELSE default_local_pref,
                     destination |-> dsts[j]]]])

\* seq[idx] with Python's index convention (0-based, negative from the end)
PyIndex(seq, idx) == IF idx >= 0 THEN seq[idx + 1] ELSE seq[Len(seq) + idx + 1]

\* line 225 with the test on the cell replaced by a test that lets zero cells in
ExportsCell_all(volume) == volume >= 0

\* line 225: if volume > 0
ExportsCell(volume) == volume > 0

\* line 227 reading the row of the source instead of the row of the chosen PE
GwIndexOf_sourceRow(dec_gw, i, pe_idx, j) == PyIndex(dec_gw, (i - 1) % 2)[j]

\* line 227: gw_idx = int(dec_matrix_pe_gw[pe_idx][j])
GwIndexOf(dec_gw, i, pe_idx, j) == PyIndex(dec_gw, pe_idx)[j]

\* step 8, lines 221-231: the list final_paths
FinalPaths(srcs, pe_list, dsts, raw, dec_pe, dec_gw) ==
    Concat([k \in 1..(Len(srcs) * Len(dsts)) |->
        LET i == Cells(Len(srcs), Len(dsts))[k][1]
            j == Cells(Len(srcs), Len(dsts))[k][2]
            volume == raw[i][j]
            pe_idx == dec_pe[i][j] - 1
            gw_idx == GwIndexOf(dec_gw, i, pe_idx, j)
        IN  IF ExportsCell(volume)
            THEN <<[source |-> srcs[i], destination |-> dsts[j], volume_mbps |-> volume,
                    path |-> [pe |-> PyIndex(pe_list, pe_idx), gw |-> GwLabel(gw_idx)]]>>
            ELSE <<>>])

-----------------------------------------------------------------------------
(* handle_traffic.py *)

MaxCmdFailures == 1     \* remote commands that may fail in one run of Spec

\* get_ipv4_address: the node-level address, NoAddr for None
get_ipv4_address(data, node_name) ==
    LET n == NodeIndex(data, node_name)
    IN  IF n = 0 THEN NoAddr ELSE data.nodes[n].ipv4_address

Failure(why) == [err |-> why, container |-> "", local_as |-> NoAsn, neighbor_ip |-> NoAddr]

Session(node_name, local_as, neighbor_ip) ==
    [err |-> "", container |-> node_name, local_as |-> local_as, neighbor_ip |-> neighbor_ip]

\* the first interface of the node with that name, 0 if there is none
IfaceIndex(node, port) ==
    IF \E k \in DOMAIN node.interfaces : node.interfaces[k].name = port
    THEN CHOOSE k \in DOMAIN node.interfaces :
            /\ node.interfaces[k].name = port
            /\ \A m \in DOMAIN node.interfaces : node.interfaces[m].name = port => k <= m
    ELSE 0

\* get_bgp_config lines 44-56: index of the first link joining the two nodes
FirstLinkBetween(data, node_name, neighbor_name) ==
    LET joins(l) == \/ (l.a = node_name /\ l.b = neighbor_name)
                    \/ (l.b = node_name /\ l.a = neighbor_name)
    IN  IF \E k \in DOMAIN data.links : joins(data.links[k])
        THEN CHOOSE k \in DOMAIN data.links :
                /\ joins(data.links[k])
                /\ \A m \in DOMAIN data.links : joins(data.links[m]) => k <= m
        ELSE 0

\* get_bgp_config: the session data, or the exception it raises
get_bgp_config(data, node_name, neighbor_name) ==
    LET n  == NodeIndex(data, node_name)
        nb == NodeIndex(data, neighbor_name)
        lk == FirstLinkBetween(data, node_name, neighbor_name)
    IN  IF n = 0 \/ nb = 0 THEN Failure("ValueError: node not found")
        ELSE IF data.nodes[n].asn = NoAsn THEN Failure("KeyError: bgp")
        ELSE IF lk = 0 THEN Failure("ValueError: no session")
        ELSE LET l    == data.links[lk]
                 port == IF l.a = node_name /\ l.b = neighbor_name THEN l.b_port ELSE l.a_port
                 ifx  == IfaceIndex(data.nodes[nb], port)
             IN  IF ifx = 0 THEN Failure("StopIteration")
                 ELSE IF data.nodes[nb].interfaces[ifx].ipv4_address = NoAddr
                      THEN Failure("KeyError: ipv4_address")
                      ELSE Session(node_name, data.nodes[n].asn,
                                   data.nodes[nb].interfaces[ifx].ipv4_address)

\* get_local_config: the session data, or the exception it raises
get_local_config(data, node_name, neighbor_name) ==
    LET n  == NodeIndex(data, node_name)
        nb == NodeIndex(data, neighbor_name)
    IN  IF n = 0 \/ nb = 0 THEN Failure("StopIteration")
        ELSE IF data.nodes[nb].interfaces = <<>> THEN Failure("IndexError")
        ELSE IF data.nodes[nb].interfaces[1].ipv4_address = NoAddr
             THEN Failure("KeyError: ipv4_address")
        ELSE IF data.nodes[n].asn = NoAsn THEN Failure("KeyError: bgp")
        ELSE Session(node_name, data.nodes[n].asn, data.nodes[nb].interfaces[1].ipv4_address)

\* ---- the vtysh batch of update_node_med / update_node_local_pref and what
\* it leaves on the router. A route-map or prefix-list name is the pair of
\* its fixed part and the address it is built from; a prefix "a.b.c.d/32" is
\* the pair of the address and 32.

CatchAllSeq == 65535

RouteMapName(kind, neighbor_ip) == <<kind, neighbor_ip>>

PrefixListName(prefix) == <<"PL", prefix>>

Cmd(op, name, seq, arg) == [op |-> op, name |-> name, seq |-> seq, arg |-> arg]

\* the batch with the neighbor statement sent before the route-map exists
update_node_med_attachFirst(local_as, neighbor_ip, med, prefix, seq) ==
    LET route_map   == RouteMapName("RM_MED_OUT", neighbor_ip)
        prefix_list == PrefixListName(prefix)
    IN  << Cmd("conf t", <<>>, 0, <<>>),
           Cmd("router bgp", <<>>, 0, <<local_as>>),
           Cmd("neighbor route-map", route_map, 0, <<neighbor_ip, "out">>),
           Cmd("exit", <<>>, 0, <<>>),
           Cmd("ip prefix-list", prefix_list, seq, prefix),
           Cmd("route-map", route_map, seq, <<>>),
           Cmd("match ip address prefix-list", prefix_list, 0, <<>>),
           Cmd("set", <<"metric">>, 0, <<med>>),
           Cmd("exit", <<>>, 0, <<>>),
           Cmd("route-map", route_map, CatchAllSeq, <<>>),
           Cmd("exit", <<>>, 0, <<>>),
           Cmd("end", <<>>, 0, <<>>) >>

\* update_node_med lines 88-109: the commands of the batch, in order
update_node_med(local_as, neighbor_ip, med, prefix, seq) ==
    LET route_map   == RouteMapName("RM_MED_OUT", neighbor_ip)
        prefix_list == PrefixListName(prefix)
    IN  << Cmd("conf t", <<>>, 0, <<>>),
           Cmd("ip prefix-list", prefix_list, seq, prefix),
           Cmd("route-map", route_map, seq, <<>>),
           Cmd("match ip address prefix-list", prefix_list, 0, <<>>),
           Cmd("set", <<"metric">>, 0, <<med>>),
           Cmd("exit", <<>>, 0, <<>>),
           Cmd("route-map", route_map, CatchAllSeq, <<>>),
           Cmd("exit", <<>>, 0, <<>>),
           Cmd("router bgp", <<>>, 0, <<local_as>>),
           Cmd("neighbor route-map", route_map, 0, <<neighbor_ip, "out">>),
           Cmd("exit", <<>>, 0, <<>>),
           Cmd("end", <<>>, 0, <<>>) >>

\* update_node_local_pref lines 131-149
update_node_local_pref(local_as, neighbor_ip, local_pref, prefix, seq) ==
    LET route_map   == RouteMapName("RM_LP_IN", neighbor_ip)
        prefix_list == PrefixListName(prefix)
    IN  << Cmd("conf t", <<>>, 0, <<>>),
           Cmd("ip prefix-list", prefix_list, seq, prefix),
           Cmd("route-map", route_map, seq, <<>>),
           Cmd("match ip address prefix-list", prefix_list, 0, <<>>),
           Cmd("set", <<"local-preference">>, 0, <<local_pref>>),
           Cmd("exit", <<>>, 0, <<>>),
           Cmd("route-map", route_map, CatchAllSeq, <<>>),
           Cmd("exit", <<>>, 0, <<>>),
           Cmd("router bgp", <<>>, 0, <<local_as>>),
           Cmd("neighbor route-map", route_map, 0, <<neighbor_ip, "in">>),
           Cmd("exit", <<>>, 0, <<>>),
           Cmd("end", <<>>, 0, <<>>) >>

\* the configuration of a router nothing was sent to; ctx is the route-map
\* entry the command line is in
NoConfig == [prefix_lists |-> {}, route_maps |-> {}, attached |-> {}, ctx |-> <<>>]

ConfigOf(container) ==
    IF container \in DOMAIN routers THEN routers[container] ELSE NoConfig

\* a match / set clause that does not replace the clause the entry has
EditEntry_firstWins(route_maps, ctx, field, value) ==
    {IF e.name = ctx[1] /\ e.seq = ctx[2] /\ e[field] = <<>>
     THEN [e EXCEPT ![field] = value] ELSE e : e \in route_maps}

\* a match / set clause typed in the entry `ctx` replaces the clause of that
\* kind the entry has
EditEntry(route_maps, ctx, field, value) ==
    {IF e.name = ctx[1] /\ e.seq = ctx[2]
     THEN [e EXCEPT ![field] = value] ELSE e : e \in route_maps}

\* one command of the batch, as vtysh hands it to the router
Exec(r, c) ==
    CASE c.op = "ip prefix-list" ->
            [r EXCEPT !.prefix_lists =
                {p \in @ : ~(p.name = c.name /\ p.seq = c.seq)}
                \cup {[name |-> c.name, seq |-> c.seq, prefix |-> c.arg]}]
      [] c.op = "route-map" ->
            [r EXCEPT !.ctx = <<c.name, c.seq>>,
                      !.route_maps =
                          IF \E e \in @ : e.name = c.name /\ e.seq = c.seq THEN @
                          ELSE @ \cup {[name |-> c.name, seq |-> c.seq,
                                        match |-> <<>>, set |-> <<>>]}]
      [] c.op = "match ip address prefix-list" /\ r.ctx # <<>> ->
            [r EXCEPT !.route_maps = EditEntry(@, r.ctx, "match", c.name)]
      [] c.op = "set" /\ r.ctx # <<>> ->
            [r EXCEPT !.route_maps = EditEntry(@, r.ctx, "set", c.name \o c.arg)]
      [] c.op = "neighbor route-map" ->
            [r EXCEPT !.attached =
                {a \in @ : ~(a.neighbor = c.arg[1] /\ a.direction = c.arg[2])}
                \cup {[neighbor |-> c.arg[1], route_map |-> c.name,
                       direction |-> c.arg[2]]}]
      [] c.op \in {"exit", "end", "router bgp"} -> [r EXCEPT !.ctx = <<>>]
      [] OTHER -> r

\* the router after the first n commands of the batch
RECURSIVE RunCommands(_, _, _)
RunCommands(r, cmds, n) ==
    IF n = 0 THEN r ELSE Exec(RunCommands(r, cmds, n - 1), cmds[n])

\* the batch set_med (direction out) or set_local_pref (direction in) sends
\* for the call d on the session sess (lines 174-177, 189-192)
BatchOf(d, sess, direction) ==
    LET prefix == <<get_ipv4_address(topo, d.destination), 32>>
    IN  IF direction = "out"
        THEN update_node_med(sess.local_as, sess.neighbor_ip, d.value, prefix, d.seq)
        ELSE update_node_local_pref(sess.local_as, sess.neighbor_ip, d.value, prefix, d.seq)

\* the routers once the batch was accepted by the container of the session
RoutersAfter(d, sess, direction) ==
    LET cmds  == BatchOf(d, sess, direction)
        after == RunCommands(ConfigOf(sess.container), cmds, Len(cmds))
    IN  [c \in DOMAIN routers \cup {sess.container} |->
            IF c = sess.container THEN after ELSE routers[c]]

\* remote command failures logged so far
CmdFailures == Cardinality({f \in failed : f.why \in {"batch", "soft reset"}})

\* What one call of set_med / set_local_pref does, for the call `d` (made as
\* call number `k`), the session lookup `sess` and the soft-reset direction:
\*   - no destination address: [ERR], return                  (lines 170-172)
\*   - the lookup raises: [ERR] from the except branch        (lines 178-179)
\*   - else the batch runs (subprocess.run, check=True); when it fails the
\*     CalledProcessError is caught and logged; when it succeeds the soft
\*     reset runs, and its failure is caught and logged too   (lines 116-124)
\* `next_pc` is where manage_pipeline goes on afterwards.
\*
\* First the same call with every failure propagating to manage_pipeline
\* instead of being caught.
ApplyDirective_raises(k, d, sess, direction, next_pc) ==
    /\ emitted' = Append(emitted, d)
    /\ IF get_ipv4_address(topo, d.destination) = NoAddr
       THEN /\ failed' = failed \cup {[call |-> k, why |-> "no destination"]}
            /\ pc' = "ABORTED" /\ failure' = "apply" /\ exit_code' = 1
            /\ UNCHANGED <<applied, soft_resets, routers>>
       ELSE IF sess.err # ""
       THEN /\ failed' = failed \cup {[call |-> k, why |-> sess.err]}
            /\ pc' = "ABORTED" /\ failure' = "apply" /\ exit_code' = 1
            /\ UNCHANGED <<applied, soft_resets, routers>>
       ELSE \E batch_ok, reset_ok \in BOOLEAN :
              /\ (~batch_ok \/ ~reset_ok) => CmdFailures < fail_budget
              /\ (~batch_ok => reset_ok)
              /\ applied' = IF batch_ok THEN applied \cup {k} ELSE applied
              /\ routers' = IF batch_ok THEN RoutersAfter(d, sess, direction) ELSE routers
              /\ soft_resets' =
                    IF batch_ok
                    THEN Append(soft_resets, [call |-> k, container |-> sess.container,
                                              neighbor_ip |-> sess.neighbor_ip,
                                              direction |-> direction])
                    ELSE soft_resets
              /\ failed' = IF ~batch_ok THEN failed \cup {[call |-> k, why |-> "batch"]}
                           ELSE IF ~reset_ok
                                THEN failed \cup {[call |-> k, why |-> "soft reset"]}
                                ELSE failed
              /\ IF batch_ok /\ reset_ok
                 THEN pc' = next_pc /\ UNCHANGED <<failure, exit_code>>
                 ELSE pc' = "ABORTED" /\ failure' = "apply" /\ exit_code' = 1

\* the same call with the soft reset issued whether or not the batch was
\* accepted
ApplyDirective_resetAlways(k, d, sess, direction, next_pc) ==
    /\ emitted' = Append(emitted, d)
    /\ pc' = next_pc
    /\ UNCHANGED <<failure, exit_code>>
    /\ IF get_ipv4_address(topo, d.destination) = NoAddr
       THEN /\ failed' = failed \cup {[call |-> k, why |-> "no destination"]}
            /\ UNCHANGED <<applied, soft_resets, routers>>
       ELSE IF sess.err # ""
       THEN /\ failed' = failed \cup {[call |-> k, why |-> sess.err]}
            /\ UNCHANGED <<applied, soft_resets, routers>>
       ELSE \E batch_ok, reset_ok \in BOOLEAN :
              /\ (~batch_ok \/ ~reset_ok) => CmdFailures < fail_budget
              /\ (~batch_ok => reset_ok)   \* no reset is attempted after a failed batch
              /\ applied' = IF batch_ok THEN applied \cup {k} ELSE applied
              /\ routers' = IF batch_ok THEN RoutersAfter(d, sess, direction) ELSE routers
              /\ soft_resets' =
                    Append(soft_resets, [call |-> k, container |-> sess.container,
                                         neighbor_ip |-> sess.neighbor_ip,
                                         direction |-> direction])
              /\ failed' = IF ~batch_ok THEN failed \cup {[call |-> k, why |-> "batch"]}
                           ELSE IF ~reset_ok
                                THEN failed \cup {[call |-> k, why |-> "soft reset"]}
                                ELSE failed

\* set_med / set_local_pref as written: every failure is logged and the call
\* returns normally
ApplyDirective(k, d, sess, direction, next_pc) ==
    /\ emitted' = Append(emitted, d)
    /\ pc' = next_pc
    /\ UNCHANGED <<failure, exit_code>>
    /\ IF get_ipv4_address(topo, d.destination) = NoAddr
       THEN /\ failed' = failed \cup {[call |-> k, why |-> "no destination"]}
            /\ UNCHANGED <<applied, soft_resets, routers>>
       ELSE IF sess.err # ""
       THEN /\ failed' = failed \cup {[call |-> k, why |-> sess.err]}
            /\ UNCHANGED <<applied, soft_resets, routers>>
       ELSE \E batch_ok, reset_ok \in BOOLEAN :
              /\ (~batch_ok \/ ~reset_ok) => CmdFailures < fail_budget
              /\ (~batch_ok => reset_ok)   \* no reset is attempted after a failed batch
              /\ applied' = IF batch_ok THEN applied \cup {k} ELSE applied
              /\ routers' = IF batch_ok THEN RoutersAfter(d, sess, direction) ELSE routers
              /\ soft_resets' =
                    IF batch_ok
                    THEN Append(soft_resets, [call |-> k, container |-> sess.container,
                                              neighbor_ip |-> sess.neighbor_ip,
                                              direction |-> direction])
                    ELSE soft_resets
              /\ failed' = IF ~batch_ok THEN failed \cup {[call |-> k, why |-> "batch"]}
                           ELSE IF ~reset_ok
                                THEN failed \cup {[call |-> k, why |-> "soft reset"]}
                                ELSE failed

-----------------------------------------------------------------------------
(* manager.py : manage_pipeline, one action per step; steps 4 and 7 take   *)
(* one action per set_med / set_local_pref call.                           *)

Sources      == traffic_json.source_routers
Pes          == traffic_json.pe_routers
Destinations == traffic_json.destinations_routers

WithSeq(d, seq) ==
    [attr |-> d.attr, node |-> d.node, neighbor |-> d.neighbor, value |-> d.value,
     destination |-> d.destination, seq |-> seq]

\* step 1, line 70: generate_and_save_traffic_matrix. Nothing is written when
\* the topology has no source or no destination, or when the save fails.
Step1_GenerateTraffic ==
    /\ pc = "STEP1"
    /\ pc' = "STEP2"
    /\ LET lists == load_topology_data(topo)
       IN  IF lists.source_routers = <<>> \/ lists.destinations_routers = <<>>
           THEN UNCHANGED traffic_json
           ELSE \E saved \in BOOLEAN :
                  IF saved
                  THEN \E m \in GeneratedMatrices(Len(lists.source_routers),
                                                  Len(lists.destinations_routers)) :
                          traffic_json' = TrafficDocument(lists, m)
                  ELSE UNCHANGED traffic_json
    /\ UNCHANGED <<topo, fail_budget, resolveVars, optVars, deployVars, run, routers, raw_matrix, dec_matrix_ce_pe, agg_matrix, caps,
                   dec_matrix_pe_gw, cur, seq_med, seq_lp, emitted, applied, failed,
                   soft_resets, final_paths, failure, exit_code>>

\* step 2 going back to step 1 instead of returning when the document cannot
\* be read
Step2_LoadData_retries ==
    /\ pc = "STEP2"
    /\ IF traffic_json = NoFile
       THEN /\ pc' = "STEP1"
            /\ UNCHANGED <<failure, exit_code>>
            /\ UNCHANGED raw_matrix
       ELSE /\ pc' = "STEP3"
            /\ raw_matrix' = traffic_json.traffic_matrix_raw
            /\ UNCHANGED <<failure, exit_code>>
    /\ UNCHANGED <<topo, fail_budget, resolveVars, optVars, deployVars, run, routers, traffic_json, dec_matrix_ce_pe, agg_matrix, caps,
                   dec_matrix_pe_gw, cur, seq_med, seq_lp, emitted, applied, failed,
                   soft_resets, final_paths>>

\* step 2, lines 76-84: read the document; on any exception print and return
Step2_LoadData ==
    /\ pc = "STEP2"
    /\ IF traffic_json = NoFile
       THEN /\ pc' = "ABORTED" /\ failure' = "load" /\ exit_code' = 0
            /\ UNCHANGED raw_matrix
       ELSE /\ pc' = "STEP3"
            /\ raw_matrix' = traffic_json.traffic_matrix_raw
            /\ UNCHANGED <<failure, exit_code>>
    /\ UNCHANGED <<topo, fail_budget, resolveVars, optVars, deployVars, run, routers, traffic_json, dec_matrix_ce_pe, agg_matrix, caps,
                   dec_matrix_pe_gw, cur, seq_med, seq_lp, emitted, applied, failed,
                   soft_resets, final_paths>>

\* step 3, lines 90-93, and lines 108-109 that start step 4
Step3_OptimizeIngress ==
    /\ pc = "STEP3"
    /\ IF ottimizzazione_scelta_PE(raw_matrix) = {}
       THEN /\ pc' = "ABORTED" /\ failure' = "ingress" /\ exit_code' = 1
            /\ UNCHANGED <<dec_matrix_ce_pe, seq_med, cur>>
       ELSE /\ \E vettore_ce_pe \in ottimizzazione_scelta_PE(raw_matrix) :
                  dec_matrix_ce_pe' =
                      Reshape(vettore_ce_pe, Len(Sources), Len(Destinations))
            /\ pc' = "STEP4" /\ seq_med' = SeqStart /\ cur' = 0
            /\ UNCHANGED <<failure, exit_code>>
    /\ UNCHANGED <<topo, fail_budget, resolveVars, optVars, deployVars, run, routers, traffic_json, raw_matrix, agg_matrix, caps,
                   dec_matrix_pe_gw, seq_lp, emitted, applied, failed, soft_resets,
                   final_paths>>

\* step 4, lines 113-135: the next set_med call and seq_med += 10
Step4_SetMed ==
    /\ pc = "STEP4"
    /\ cur < Len(MedPlan(Sources, Destinations, dec_matrix_ce_pe))
    /\ LET d == WithSeq(MedPlan(Sources, Destinations, dec_matrix_ce_pe)[cur + 1], seq_med)
       IN  ApplyDirective(Len(emitted) + 1, d, get_bgp_config(topo, d.node, d.neighbor),
                          "out", "STEP4")
    /\ cur' = cur + 1
    /\ seq_med' = seq_med + SeqStep
    /\ UNCHANGED <<topo, fail_budget, resolveVars, optVars, deployVars, run, traffic_json, raw_matrix, dec_matrix_ce_pe, agg_matrix,
                   caps, dec_matrix_pe_gw, seq_lp, final_paths>>

\* step 5, lines 144-150, entered when the loop of step 4 is over
Step5_Aggregate ==
    /\ pc = "STEP4"
    /\ cur = Len(MedPlan(Sources, Destinations, dec_matrix_ce_pe))
    /\ agg_matrix' = Aggregate(raw_matrix, dec_matrix_ce_pe)
    /\ pc' = "STEP6"
    /\ UNCHANGED <<topo, fail_budget, resolveVars, optVars, deployVars, run, routers, traffic_json, raw_matrix, dec_matrix_ce_pe, caps,
                   dec_matrix_pe_gw, cur, seq_med, seq_lp, emitted, applied, failed,
                   soft_resets, final_paths, failure, exit_code>>

\* step 6, lines 164-169, and lines 184-185 that start step 7; the
\* RuntimeError of the solver is not caught and ends the process
Step6_OptimizeEgress ==
    /\ pc = "STEP6"
    /\ caps' = get_gw_capacities(topo)
    /\ LET cap == get_gw_capacities(topo)
           choices == ottimizzazione_scelta_GW(cap[1], cap[2], agg_matrix)
       IN  IF choices = {}
           THEN /\ pc' = "ABORTED" /\ failure' = "egress" /\ exit_code' = 1
                /\ UNCHANGED <<dec_matrix_pe_gw, seq_lp, cur>>
           ELSE /\ \E vettore_pe_gw \in choices :
                      dec_matrix_pe_gw' = Reshape(vettore_pe_gw, 2, Len(Destinations))
                /\ pc' = "STEP7" /\ seq_lp' = SeqStart /\ cur' = 0
                /\ UNCHANGED <<failure, exit_code>>
    /\ UNCHANGED <<topo, fail_budget, resolveVars, optVars, deployVars, run, routers, traffic_json, raw_matrix, dec_matrix_ce_pe, agg_matrix,
                   seq_med, emitted, applied, failed, soft_resets, final_paths>>

\* step 7, lines 189-212: the next set_local_pref call and seq_lp += 10
Step7_SetLocalPref ==
    /\ pc = "STEP7"
    /\ cur < Len(LpPlan(Pes, Destinations, dec_matrix_pe_gw))
    /\ LET d == WithSeq(LpPlan(Pes, Destinations, dec_matrix_pe_gw)[cur + 1], seq_lp)
       IN  ApplyDirective(Len(emitted) + 1, d, get_local_config(topo, d.node, d.neighbor),
                          "in", "STEP7")
    /\ cur' = cur + 1
    /\ seq_lp' = seq_lp + SeqStep
    /\ UNCHANGED <<topo, fail_budget, resolveVars, optVars, deployVars, run, traffic_json, raw_matrix, dec_matrix_ce_pe, agg_matrix,
                   caps, dec_matrix_pe_gw, seq_med, final_paths>>

\* step 8, lines 221-238, entered when the loop of step 7 is over
Step8_Export ==
    /\ pc = "STEP7"
    /\ cur = Len(LpPlan(Pes, Destinations, dec_matrix_pe_gw))
    /\ final_paths' = FinalPaths(Sources, Pes, Destinations, raw_matrix,
                                 dec_matrix_ce_pe, dec_matrix_pe_gw)
    /\ pc' = "DONE"
    /\ exit_code' = 0
    /\ UNCHANGED <<topo, fail_budget, resolveVars, optVars, deployVars, run, routers, traffic_json, raw_matrix, dec_matrix_ce_pe, agg_matrix,
                   caps, dec_matrix_pe_gw, cur, seq_med, seq_lp, emitted, applied, failed,
                   soft_resets, failure>>

DeployIdle ==
    /\ d_pc = "idle" /\ reported = <<>> /\ clab_written = FALSE
    /\ configs_generated = FALSE /\ uploaded = FALSE /\ d_exit = Running

\* the manager process at its start, no file written and no router configured
PipeStart ==
    /\ DeployIdle
    /\ ResolveIdle
    /\ OptIdle
    /\ pc = "STEP1"
    /\ run = 1
    /\ routers = EmptyMap
    /\ traffic_json = NoFile
    /\ raw_matrix = <<>>
    /\ dec_matrix_ce_pe = <<>>
    /\ agg_matrix = <<>>
    /\ caps = <<>>
    /\ dec_matrix_pe_gw = <<>>
    /\ cur = 0
    /\ seq_med = 0
    /\ seq_lp = 0
    /\ emitted = <<>>
    /\ applied = {}
    /\ failed = {}
    /\ soft_resets = <<>>
    /\ final_paths = NoFile
    /\ failure = "none"
    /\ exit_code = Running

Init ==
    /\ topo \in PipeTopologies
    /\ fail_budget = MaxCmdFailures
    /\ PipeStart

Next ==
    \/ Step1_GenerateTraffic
    \/ Step2_LoadData
    \/ Step3_OptimizeIngress
    \/ Step4_SetMed
    \/ Step5_Aggregate
    \/ Step6_OptimizeEgress
    \/ Step7_SetLocalPref
    \/ Step8_Export

Spec == Init /\ [][Next]_vars

\* the positions of manage_pipeline
PcValues == {"STEP1", "STEP2", "STEP3", "STEP4", "STEP6", "STEP7", "DONE", "ABORTED"}

\* the run leaves the point it is at: the position changes, or the loop of
\* step 4 / step 7 makes its next call
Advance ==
    /\ pc \notin {"DONE", "ABORTED"}
    /\ pc' \in PcValues
    /\ cur' \in 0..(2 * Cardinality(NamesWithRole(topo, "router"))
                       * (Cardinality(NamesWithRole(topo, "ce")) + 2))

\* one run in which every external call returns: manage_pipeline is
\* straight-line code with two bounded loops, so a run that has not ended
\* does not stay at one point for ever
SpecLive == Init /\ [][Next]_vars /\ WF_<<pc, cur>>(Advance)

-----------------------------------------------------------------------------
(* manager.py started again against the same routers: the files and the    *)
(* router configuration stay, the variables of the process start afresh.   *)

MaxRuns == 2        \* runs of the manager in one behaviour

\* lines 240-241: the script is started once more after a run has ended
StartNextRun ==
    /\ pc \in {"DONE", "ABORTED"}
    /\ run < MaxRuns
    /\ run' = run + 1
    /\ pc' = "STEP1"
    /\ raw_matrix' = <<>> /\ dec_matrix_ce_pe' = <<>> /\ agg_matrix' = <<>>
    /\ caps' = <<>> /\ dec_matrix_pe_gw' = <<>>
    /\ cur' = 0 /\ seq_med' = 0 /\ seq_lp' = 0
    /\ failure' = "none" /\ exit_code' = Running
    /\ UNCHANGED <<topo, fail_budget, resolveVars, optVars, deployVars, routers, traffic_json,
                   final_paths, emitted, applied, failed, soft_resets>>

\* the reference topology
RunTopologies ==
    {PipeTopology(v) : v \in {w \in Variants : /\ ~w.nolink /\ ~w.noaddr /\ ~w.dup
                                               /\ w.caps = <<NoCap, NoCap>>}}

\* repeated runs are followed with every remote command succeeding
InitRuns ==
    /\ topo \in RunTopologies
    /\ fail_budget = 0
    /\ PipeStart

NextRuns == Next \/ StartNextRun

SpecRuns == InitRuns /\ [][NextRuns]_vars

-----------------------------------------------------------------------------
(* build_configs.py : the neighbor discovery of every node                 *)

\* nodes_map.get(name): index of the last node of that name, 0 for None
NodesMapGet(data, name) ==
    IF \E k \in DOMAIN data.nodes : data.nodes[k].name = name
    THEN CHOOSE k \in DOMAIN data.nodes :
            /\ data.nodes[k].name = name
            /\ \A m \in DOMAIN data.nodes : data.nodes[m].name = name => m <= k
    ELSE 0

\* get_remote_ip: the address of the first interface of that name on the
\* node, NoAddr (None) when the node, the interface or its address is absent
get_remote_ip(data, node_name, port_name) ==
    LET n == NodesMapGet(data, node_name)
    IN  IF n = 0 THEN NoAddr
        ELSE LET ifx == IfaceIndex(data.nodes[n], port_name)
             IN  IF ifx = 0 THEN NoAddr ELSE data.nodes[n].interfaces[ifx].ipv4_address

Edge(ip, remote_as, type, description) ==
    [ip |-> ip, remote_as |-> remote_as, type |-> type, description |-> description]

\* line 99 giving 'ebgp' whatever the two ASNs are
SessionType_alwaysEbgp(remote_asn, local_asn) == "ebgp"

\* line 99: 'ibgp' if remote_node['bgp']['asn'] == local_asn else 'ebgp'
SessionType(remote_asn, local_asn) == IF remote_asn = local_asn THEN "ibgp" ELSE "ebgp"

\* lines 82-87 taking the end of the link on hostname's own side
RemoteEnd_localSide(link, hostname) ==
    IF link.a = hostname THEN <<link.a, link.a_port>>
    ELSE IF link.b = hostname THEN <<link.b, link.b_port>>
    ELSE <<>>

\* lines 82-87: the far end of the link as seen from hostname, <<>> when the
\* link does not touch it
RemoteEnd(link, hostname) ==
    IF link.a = hostname THEN <<link.b, link.b_port>>
    ELSE IF link.b = hostname THEN <<link.a, link.a_port>>
    ELSE <<>>

\* lines 93-101: the write made for a remote node that carries bgp
DirectEdges(data, local_asn, remote) ==
    LET rn   == NodesMapGet(data, remote[1])
        r_ip == get_remote_ip(data, remote[1], remote[2])
    IN  IF data.nodes[rn].asn # NoAsn /\ r_ip # NoAddr
        THEN <<Edge(r_ip, data.nodes[rn].asn,
                    SessionType(data.nodes[rn].asn, local_asn), <<"Link_to", remote[1]>>)>>
        ELSE <<>>

\* lines 110-120 without the test p_node['bgp']['asn'] == local_asn
BridgePeerEdges_anyAsn(data, hostname, local_asn, bridge, l) ==
    LET p == IF l.a = bridge THEN <<l.b, l.b_port>>
             ELSE IF l.b = bridge THEN <<l.a, l.a_port>>
             ELSE <<"", "">>
        pn == NodesMapGet(data, p[1])
    IN  IF p[1] # "" /\ p[1] # hostname /\ pn # 0 /\ data.nodes[pn].asn # NoAsn
           /\ get_remote_ip(data, p[1], p[2]) # NoAddr
        THEN <<Edge(get_remote_ip(data, p[1], p[2]), local_asn, "ibgp", <<"iBGP_via", bridge>>)>>
        ELSE <<>>

\* lines 106-120: the write made for one link `l` of the inner scan
BridgePeerEdges(data, hostname, local_asn, bridge, l) ==
    LET p == IF l.a = bridge THEN <<l.b, l.b_port>>
             ELSE IF l.b = bridge THEN <<l.a, l.a_port>>
             ELSE <<"", "">>
        pn == NodesMapGet(data, p[1])
    IN  IF p[1] # "" /\ p[1] # hostname /\ pn # 0 /\ data.nodes[pn].asn # NoAsn
           /\ data.nodes[pn].asn = local_asn
           /\ get_remote_ip(data, p[1], p[2]) # NoAddr
        THEN <<Edge(get_remote_ip(data, p[1], p[2]), local_asn, "ibgp", <<"iBGP_via", bridge>>)>>
        ELSE <<>>

\* lines 104-120: the writes made for a remote node that is a bridge
BridgeEdges(data, hostname, local_asn, remote) ==
    LET rn == NodesMapGet(data, remote[1])
    IN  IF data.nodes[rn].role = "bridge"
        THEN Concat([k \in DOMAIN data.links |->
                        BridgePeerEdges(data, hostname, local_asn, remote[1], data.links[k])])
        ELSE <<>>

\* lines 81-120: the writes made to neighbors_dict for one link of the outer loop
LinkEdges(data, hostname, local_asn, link) ==
    LET remote == RemoteEnd(link, hostname)
    IN  IF remote = <<>> THEN <<>>
        ELSE IF NodesMapGet(data, remote[1]) = 0 THEN <<>>
        ELSE DirectEdges(data, local_asn, remote)
             \o BridgeEdges(data, hostname, local_asn, remote)

\* lines 80-120: every write made to neighbors_dict for the node, in order
NeighborWrites(data, node) ==
    IF node.asn = NoAsn THEN <<>>
    ELSE Concat([k \in DOMAIN data.links |->
                    LinkEdges(data, node.name, node.asn, data.links[k])])

\* neighbors_dict after the writes: one entry per key, the last write wins
NeighborsDict(writes) ==
    [ip \in {writes[k].ip : k \in DOMAIN writes} |->
        writes[CHOOSE k \in DOMAIN writes :
                  /\ writes[k].ip = ip
                  /\ \A m \in DOMAIN writes : writes[m].ip = ip => m <= k]]

\* line 62: hosts and nodes without an 'interfaces' key get no configuration
SkipsNode(node) == node.role = "host" \/ node.interfaces = <<>>

\* line 74: iface['ipv4_mask'] raises KeyError on an interface without mask
MaskKeyError(node) ==
    /\ node.asn # NoAsn
    /\ \E m \in DOMAIN node.interfaces : node.interfaces[m].ipv4_mask = NoMask

\* Topologies given to build_configs.py run on its own: the edge router pe1
\* with a customer ce1 on a point-to-point link and, behind the bridge br1,
\* the gateway gw1 and the host h1.
ResolveVariants ==
    [gw_asn   : {65020, 65030},   \* ASN of gw1 (pe1 has 65020)
     ce_asn   : {65001, 65020},   \* ASN of ce1
     dangling : BOOLEAN,          \* the link pe1 - ce1 names ce1:eth9, which ce1 lacks
     selflink : BOOLEAN,          \* a link joins pe1:eth2 and pe1:eth3
     dup      : BOOLEAN,          \* gw1:eth0 repeats the address of ce1:eth0
     shared   : BOOLEAN,          \* ce1:eth0 is attached to the bridge as well
     nomask   : BOOLEAN,          \* ce1 has a second interface without address and mask
     flip     : BOOLEAN]          \* every link is written with a and b exchanged

ResolveNodes(v) ==
    << Node("pe1", "pe", 65020, NoAddr,
            <<Iface("eth0", <<10, 1, 1, 2>>, 24), Iface("eth1", <<10, 0, 0, 1>>, 24),
              Iface("eth2", <<10, 7, 0, 1>>, 24), Iface("eth3", <<10, 7, 0, 2>>, 24)>>),
       Node("ce1", "ce", v.ce_asn, NoAddr,
            <<Iface("eth0", <<10, 1, 1, 1>>, 24)>>
            \o (IF v.nomask THEN <<Iface("eth1", NoAddr, NoMask)>> ELSE <<>>)),
       Node("gw1", "gw", v.gw_asn, NoAddr,
            <<Iface("eth0", IF v.dup THEN <<10, 1, 1, 1>> ELSE <<10, 0, 0, 11>>, 24)>>),
       Node("h1", "host", NoAsn, NoAddr, <<Iface("eth0", <<10, 0, 0, 50>>, 24)>>),
       Node("br1", "bridge", NoAsn, NoAddr, <<>>) >>

ResolveLinks(v) ==
    LET links ==
          << Link("pe1", "eth0", "ce1", IF v.dangling THEN "eth9" ELSE "eth0", NoCap),
             Link("pe1", "eth1", "br1", "p1", NoCap),
             Link("gw1", "eth0", "br1", "p2", NoCap),
             Link("h1", "eth0", "br1", "p3", NoCap) >>
          \o (IF v.shared THEN <<Link("ce1", "eth0", "br1", "p4", NoCap)>> ELSE <<>>)
          \o (IF v.selflink THEN <<Link("pe1", "eth2", "pe1", "eth3", NoCap)>> ELSE <<>>)
    IN  IF v.flip
        THEN [k \in DOMAIN links |->
                 Link(links[k].b, links[k].b_port, links[k].a, links[k].a_port, NoCap)]
        ELSE links

ResolveTopologies == {[nodes |-> ResolveNodes(v), links |-> ResolveLinks(v)] : v \in ResolveVariants}

\* line 59-63: the loop reaches a host or a node without interfaces
BuildConfigs_Skip ==
    /\ b_pc = "loop"
    /\ b_idx <= Len(topo.nodes)
    /\ SkipsNode(topo.nodes[b_idx])
    /\ b_idx' = b_idx + 1
    /\ UNCHANGED <<topo, fail_budget, deployVars, pipeVars, optVars, b_pc, derivations, neighbors>>

\* lines 65-120 and 123-132: the neighbors of the node are collected and its
\* configuration is rendered and written
BuildConfigs_Node ==
    /\ b_pc = "loop"
    /\ b_idx <= Len(topo.nodes)
    /\ ~SkipsNode(topo.nodes[b_idx])
    /\ ~MaskKeyError(topo.nodes[b_idx])
    /\ LET node   == topo.nodes[b_idx]
           writes == NeighborWrites(topo, node)
       IN  /\ derivations' = (node.name :> writes) @@ derivations
           /\ neighbors' = (node.name :> NeighborsDict(writes)) @@ neighbors
    /\ b_idx' = b_idx + 1
    /\ UNCHANGED <<topo, fail_budget, deployVars, pipeVars, optVars, b_pc>>

\* line 74: the KeyError is not caught and ends the script
BuildConfigs_KeyError ==
    /\ b_pc = "loop"
    /\ b_idx <= Len(topo.nodes)
    /\ ~SkipsNode(topo.nodes[b_idx])
    /\ MaskKeyError(topo.nodes[b_idx])
    /\ b_pc' = "crashed"
    /\ UNCHANGED <<topo, fail_budget, deployVars, pipeVars, optVars, b_idx, derivations, neighbors>>

\* the loop of line 59 is over
BuildConfigs_End ==
    /\ b_pc = "loop"
    /\ b_idx > Len(topo.nodes)
    /\ b_pc' = "done"
    /\ UNCHANGED <<topo, fail_budget, deployVars, pipeVars, optVars, b_idx, derivations, neighbors>>

InitResolve ==
    /\ topo \in ResolveTopologies
    /\ DeployIdle
    /\ PipeIdle
    /\ OptIdle
    /\ b_pc = "loop"
    /\ b_idx = 1
    /\ derivations = EmptyMap
    /\ neighbors = EmptyMap

NextResolve ==
    \/ BuildConfigs_Skip
    \/ BuildConfigs_Node
    \/ BuildConfigs_KeyError
    \/ BuildConfigs_End

SpecResolve == InitResolve /\ [][NextResolve]_vars

-----------------------------------------------------------------------------
(* The optimizers and the aggregation applied to given inputs              *)

\* the worked inputs, in units of 100 Mbps: [100, 100], [300] and [800, 200]
ExampleMatrices == { <<<<1, 1>>>>, <<<<3>>>>, <<<<8, 2>>>> }

OptMatrices == [1..2 -> [1..2 -> 0..MaxVol]] \cup ExampleMatrices

\* <<cap1, cap2>>; <<10, 5>> is cap1 = 1000, cap2 = 500 in the same units
OptCaps == { <<1, 1>>, <<1, 2>>, <<10, 5>>, <<0, 0>> }

\* ottimizzazione_scelta_PE(matrice_input = o_matrix)
CallIngress ==
    /\ o_pc = "ingress"
    /\ o_vec_pe' \in ottimizzazione_scelta_PE(o_matrix)
    /\ o_pc' = "aggregate"
    /\ UNCHANGED <<topo, fail_budget, deployVars, pipeVars, resolveVars, o_matrix, o_caps, o_agg, o_vec_gw>>

\* manager.py lines 93 and 144-150 on o_matrix and the ingress vector
CallAggregate ==
    /\ o_pc = "aggregate"
    /\ o_agg' = Aggregate(o_matrix, Reshape(o_vec_pe, Len(o_matrix), Len(o_matrix[1])))
    /\ o_pc' = "egress"
    /\ UNCHANGED <<topo, fail_budget, deployVars, pipeVars, resolveVars, o_matrix, o_caps, o_vec_pe, o_vec_gw>>

\* ottimizzazione_scelta_GW(cap1, cap2, matrice_input = o_matrix); the
\* RuntimeError of an unsuccessful solve reaches the caller
CallEgress ==
    /\ o_pc = "egress"
    /\ LET choices == ottimizzazione_scelta_GW(o_caps[1], o_caps[2], o_matrix)
       IN  IF choices = {}
           THEN o_pc' = "raised" /\ UNCHANGED o_vec_gw
           ELSE o_pc' = "done" /\ o_vec_gw' \in choices
    /\ UNCHANGED <<topo, fail_budget, deployVars, pipeVars, resolveVars, o_matrix, o_caps, o_vec_pe, o_agg>>

InitOpt ==
    /\ topo \in {PipeTopology([nolink |-> FALSE, noaddr |-> FALSE, dup |-> FALSE,
                               caps |-> <<NoCap, NoCap>>])}
    /\ DeployIdle
    /\ PipeIdle
    /\ ResolveIdle
    /\ o_pc = "ingress"
    /\ o_matrix \in OptMatrices
    /\ o_caps \in OptCaps
    /\ o_vec_pe = <<>>
    /\ o_agg = <<>>
    /\ o_vec_gw = <<>>

NextOpt == CallIngress \/ CallAggregate \/ CallEgress

SpecOpt == InitOpt /\ [][NextOpt]_vars

-----------------------------------------------------------------------------
(* Properties of the deployment and of the validator (SpecDeploy)          *)

Validated == d_pc # "build_topology"

\* the (node, interface) pairs of the topology that carry an address and a mask
AddressedPairs ==
    UNION {{<<topo.nodes[k].name, topo.nodes[k].interfaces[m].name>> :
               m \in {i \in DOMAIN topo.nodes[k].interfaces :
                         /\ topo.nodes[k].interfaces[i].ipv4_address # NoAddr
                         /\ topo.nodes[k].interfaces[i].ipv4_mask # NoMask}} :
           k \in DOMAIN topo.nodes}

IfaceAt(pair) ==
    LET k == CHOOSE n \in DOMAIN topo.nodes : topo.nodes[n].name = pair[1]
        m == CHOOSE i \in DOMAIN topo.nodes[k].interfaces :
                 topo.nodes[k].interfaces[i].name = pair[2]
    IN  topo.nodes[k].interfaces[m]

PairsWithAddress(ip) == {p \in AddressedPairs : IfaceAt(p).ipv4_address = ip}

ParseablePairs ==
    {p \in AddressedPairs : ParseOk(IfaceAt(p).ipv4_address, IfaceAt(p).ipv4_mask)}

Reports(kind) == {k \in DOMAIN reported : reported[k].kind = kind}

\* both ends of the link carry an address that parses
BothParse(l) ==
    /\ <<l.a, l.a_port>> \in ParseablePairs
    /\ <<l.b, l.b_port>> \in ParseablePairs

\* the two ends lie in one subnet: equal prefix length and equal prefix bits
SameSubnet(l) ==
    LET ia == IfaceAt(<<l.a, l.a_port>>)
        ib == IfaceAt(<<l.b, l.b_port>>)
        va == IpValue(ia.ipv4_address)
        vb == IpValue(ib.ipv4_address)
    IN  /\ ia.ipv4_mask = ib.ipv4_mask
        /\ va \div (2 ^ (32 - ia.ipv4_mask)) = vb \div (2 ^ (32 - ib.ipv4_mask))

LinkReports(kind, l) ==
    {k \in Reports(kind) :
        reported[k].a = <<l.a, l.a_port>> /\ reported[k].b = <<l.b, l.b_port>>}

\* C7: when the validator reports a violation the deployment halts: the lab
\* topology file is not written, no router configuration is generated,
\* nothing is uploaded, and the orchestrator exits with status 1.
C7_ViolationHaltsDeployment ==
    (Validated /\ validate_data(topo) # <<>>) =>
        /\ d_pc = "exit"
        /\ d_exit = 1
        /\ ~clab_written
        /\ ~configs_generated
        /\ ~uploaded

C7_Witness ==
    /\ d_pc = "exit" /\ d_exit = 1 /\ Len(reported) >= 2 /\ ~clab_written

C9_DuplicateReportedOnce ==
    Validated =>
        \A p \in AddressedPairs :
            LET ip   == IfaceAt(p).ipv4_address
                dups == {k \in Reports("DUPLICATE IP") : reported[k].ip = ip}
            IN  /\ Cardinality(PairsWithAddress(ip)) = 2 =>
                      /\ Cardinality(dups) = 1
                      /\ \A k \in dups :
                            {reported[k].a, reported[k].b} = PairsWithAddress(ip)
                /\ Cardinality(PairsWithAddress(ip)) = 1 => dups = {}

C9_Witness ==
    /\ Validated
    /\ \E p \in AddressedPairs :
          /\ Cardinality(PairsWithAddress(IfaceAt(p).ipv4_address)) = 2
          /\ \E k \in Reports("DUPLICATE IP") : reported[k].ip = IfaceAt(p).ipv4_address
    /\ \E p \in AddressedPairs :
          Cardinality(PairsWithAddress(IfaceAt(p).ipv4_address)) = 1

\* C10: for every link whose two ends both carry a parseable address, a
\* subnet-mismatch violation is reported exactly when the network of side a
\* differs from the network of side b.
C10_MismatchIffNetworksDiffer ==
    Validated =>
        \A n \in DOMAIN topo.links :
            LET l == topo.links[n]
            IN  BothParse(l) =>
                   (LinkReports("SUBNET MISMATCH", l) # {} <=> ~SameSubnet(l))

C10_Witness ==
    /\ Validated
    /\ \E n, m \in DOMAIN topo.links :
          /\ BothParse(topo.links[n]) /\ BothParse(topo.links[m])
          /\ LinkReports("SUBNET MISMATCH", topo.links[n]) # {}
          /\ LinkReports("SUBNET MISMATCH", topo.links[m]) = {}
          /\ IfaceAt(<<topo.links[m].a, "eth0">>).ipv4_address
                # IfaceAt(<<topo.links[m].b, "eth0">>).ipv4_address

\* the same link with its two ends listed the other way round
SwappedLink(l) == Link(l.b, l.b_port, l.a, l.a_port, l.capacity)

\* the validator's interface_map for the topology
InterfaceMapOf(data) == ScanIfaces(ScanStart, FlattenIfaces(data.nodes)).interface_map

\* C11: for every link whose two ends both carry a parseable address, an
\* undersized-mask violation is reported when both ends are /32, is not
\* reported when neither end is /32, and is reported for the link exactly
\* when the validator reports it for the same link with a and b exchanged.
C11_UndersizedMaskSymmetric ==
    Validated =>
        \A n \in DOMAIN topo.links :
            LET l        == topo.links[n]
                mask_a   == IfaceAt(<<l.a, l.a_port>>).ipv4_mask
                mask_b   == IfaceAt(<<l.b, l.b_port>>).ipv4_mask
                reported_l == LinkReports("MASK TOO SMALL", l) # {}
                swapped  == CheckLink(InterfaceMapOf(topo), SwappedLink(l))
            IN  BothParse(l) =>
                  /\ (mask_a = 32 /\ mask_b = 32) => reported_l
                  /\ (mask_a < 32 /\ mask_b < 32) => ~reported_l
                  /\ reported_l <=>
                        \E k \in DOMAIN swapped : swapped[k].kind = "MASK TOO SMALL"

-----------------------------------------------------------------------------
(* Properties of the pipeline (Spec)                                       *)

Terminated == pc \in {"DONE", "ABORTED"}

NonZeroCells(matrix) ==
    {c \in (DOMAIN matrix) \X (1..Len(matrix[1])) : matrix[c[1]][c[2]] # 0}

EmittedOf(attr) == {k \in DOMAIN emitted : emitted[k].attr = attr}

IndexOf(seq, x) == CHOOSE k \in DOMAIN seq : seq[k] = x

\* C1: when the ingress or the egress optimizer fails, the run ends ABORTED
\* and no MED or Local Preference directive has been applied in that run.
C1_OptimizerFailureAppliesNothing ==
    failure \in {"ingress", "egress"} => (pc = "ABORTED" /\ applied = {})

\* C2: a run never emits a policy directive for a topology in which the
\* validator finds a violation.
C2_NoDirectiveForInvalidTopology ==
    validate_data(topo) # <<>> => emitted = <<>>

\* C3: a failed application (remote command failure, no link between node and
\* neighbor, destination without address) does not end the run: once the run
\* is over, the failure is not what ended it, every MED directive of the
\* ingress assignment was attempted, and unless the egress optimizer itself
\* failed the run is DONE with every Local Preference directive attempted too.
C3_ApplyFailureNotFatal ==
    (Terminated /\ failed # {}) =>
        /\ pc = "ABORTED" => failure = "egress"
        /\ Cardinality(EmittedOf("med")) = 2 * Cardinality(NonZeroCells(dec_matrix_ce_pe))
        /\ pc = "DONE" =>
              /\ exit_code = 0
              /\ Cardinality(EmittedOf("local_pref"))
                    = 2 * Cardinality(NonZeroCells(dec_matrix_pe_gw))

C3_Witness ==
    /\ pc = "DONE"
    /\ {"batch", "ValueError: no session", "no destination"} \subseteq {f.why : f \in failed}
    /\ \E f \in failed : \E k \in applied : k > f.call

\* C4: when an application failed during a run, the exported result differs
\* from the result the same demand and the same assignments give when every
\* application succeeds, and so tells the operator that something failed.
C4_FailureVisibleInExport ==
    (pc = "DONE" /\ failed # {}) =>
        \/ \E k \in DOMAIN final_paths : "failed" \in DOMAIN final_paths[k]
        \/ final_paths # FinalPaths(Sources, Pes, Destinations, raw_matrix,
                                    dec_matrix_ce_pe, dec_matrix_pe_gw)

\* C5: the exported result holds exactly one record for every demand cell of
\* non-zero volume, none for a zero cell, in row-major order of the cells.
C5_OneRecordPerActiveCell ==
    pc = "DONE" =>
        LET cellOf(r) == <<IndexOf(Sources, r.source), IndexOf(Destinations, r.destination)>>
        IN  /\ \A k \in DOMAIN final_paths :
                  /\ final_paths[k].source \in Range(Sources)
                  /\ final_paths[k].destination \in Range(Destinations)
                  /\ cellOf(final_paths[k]) \in NonZeroCells(raw_matrix)
                  /\ final_paths[k].volume_mbps
                        = raw_matrix[cellOf(final_paths[k])[1]][cellOf(final_paths[k])[2]]
            /\ \A c \in NonZeroCells(raw_matrix) :
                  Cardinality({k \in DOMAIN final_paths : cellOf(final_paths[k]) = c}) = 1
            /\ \A k, l \in DOMAIN final_paths :
                  k < l => \/ cellOf(final_paths[k])[1] < cellOf(final_paths[l])[1]
                           \/ /\ cellOf(final_paths[k])[1] = cellOf(final_paths[l])[1]
                              /\ cellOf(final_paths[k])[2] < cellOf(final_paths[l])[2]

C5_Witness ==
    /\ pc = "DONE"
    /\ Len(final_paths) = 2
    /\ final_paths[1].destination = "r2"
    /\ final_paths[2].destination = "r1"
    /\ raw_matrix[1][1] = 0

-----------------------------------------------------------------------------
(* Properties of the neighbor discovery (SpecResolve)                      *)

NodeByName(name) ==
    topo.nodes[CHOOSE k \in DOMAIN topo.nodes : topo.nodes[k].name = name]

HasIface(pair) ==
    \E k \in DOMAIN topo.nodes :
        /\ topo.nodes[k].name = pair[1]
        /\ \E m \in DOMAIN topo.nodes[k].interfaces :
               topo.nodes[k].interfaces[m].name = pair[2]

\* the far ends <<node, port>> of the links that join `name` to another node
FarEnds(name) ==
    {<<topo.links[k].b, topo.links[k].b_port>> :
        k \in {n \in DOMAIN topo.links : topo.links[n].a = name /\ topo.links[n].b # name}}
    \cup
    {<<topo.links[k].a, topo.links[k].a_port>> :
        k \in {n \in DOMAIN topo.links : topo.links[n].b = name /\ topo.links[n].a # name}}

\* far ends that name an interface with an address
AddressedFarEnds(name) ==
    {e \in FarEnds(name) : HasIface(e) /\ IfaceAt(e).ipv4_address # NoAddr}

\* the nodes whose configuration has been rendered and that carry bgp
ResolvedBgpNodes == {n \in DOMAIN neighbors : NodeByName(n).asn # NoAsn}

TopologyValid == validate_data(topo) = <<>>

\* C12: for every link joining a resolved BGP node to another node that
\* carries bgp, a write is made for the address of the remote interface the
\* link names, with the remote ASN and with type ibgp exactly when the two
\* ASNs are equal; in a validated topology the rendered neighbor set holds
\* that edge under that address.
C12_DirectEdge ==
    \A local \in ResolvedBgpNodes :
        \A e \in AddressedFarEnds(local) :
            LET remote == NodeByName(e[1])
                ip     == IfaceAt(e).ipv4_address
                right(w) == /\ w.ip = ip
                            /\ w.remote_as = remote.asn
                            /\ (w.type = "ibgp" <=> remote.asn = NodeByName(local).asn)
                            /\ (w.type = "ebgp" <=> remote.asn # NodeByName(local).asn)
            IN  remote.asn # NoAsn =>
                  /\ \E k \in DOMAIN derivations[local] : right(derivations[local][k])
                  /\ TopologyValid =>
                        /\ ip \in DOMAIN neighbors[local]
                        /\ right(neighbors[local][ip])

C12_Witness ==
    /\ b_pc = "done"
    /\ TopologyValid
    /\ <<10, 1, 1, 1>> \in DOMAIN neighbors["pe1"]
    /\ neighbors["pe1"][<<10, 1, 1, 1>>].type = "ebgp"
    /\ neighbors["ce1"][<<10, 1, 1, 2>>].type = "ebgp"
    /\ topo.links[1].a = "ce1"

\* the bridges a node is linked to
BridgesOf(name) == {e[1] : e \in {x \in FarEnds(name) : NodeByName(x[1]).role = "bridge"}}

\* C13: in a validated topology, for a resolved BGP node linked to a bridge,
\* every other node on the bridge that carries bgp with the local ASN is in
\* the neighbor set as an ibgp edge under its bridge-facing address, and no
\* write is made through the bridge for a node on it whose ASN differs or
\* that carries no bgp; such a node is in the neighbor set only if it is
\* also linked to the local node directly.
C13_BridgeEdges ==
    TopologyValid =>
        \A local \in ResolvedBgpNodes :
            \A bridge \in BridgesOf(local) :
                \A p \in {e \in AddressedFarEnds(bridge) : e[1] # local} :
                    LET peer == NodeByName(p[1])
                        ip   == IfaceAt(p).ipv4_address
                    IN  IF peer.asn # NoAsn /\ peer.asn = NodeByName(local).asn
                        THEN /\ ip \in DOMAIN neighbors[local]
                             /\ neighbors[local][ip].type = "ibgp"
                             /\ neighbors[local][ip].remote_as = peer.asn
                        ELSE /\ \A k \in DOMAIN derivations[local] :
                                    derivations[local][k].description[1] = "iBGP_via"
                                        => derivations[local][k].ip # ip
                             /\ p \notin FarEnds(local) => ip \notin DOMAIN neighbors[local]

C13_Witness ==
    /\ b_pc = "done"
    /\ TopologyValid
    /\ NodeByName("gw1").asn = 65020
    /\ NodeByName("ce1").asn = 65001
    /\ <<"ce1", "eth0">> \in FarEnds("br1")
    /\ neighbors["pe1"][<<10, 0, 0, 11>>].type = "ibgp"
    /\ neighbors["gw1"][<<10, 0, 0, 1>>].description = <<"iBGP_via", "br1">>
    /\ <<10, 0, 0, 50>> \notin DOMAIN neighbors["pe1"]

\* the addresses configured on the interfaces of a node
AddressesOf(name) ==
    {NodeByName(name).interfaces[m].ipv4_address : m \in DOMAIN NodeByName(name).interfaces}
        \ {NoAddr}

\* C14: in a validated topology no resolved neighbor set holds an address of
\* the local node itself as neighbor IP.
C14_NeverOwnNeighbor ==
    TopologyValid =>
        \A local \in DOMAIN neighbors :
            DOMAIN neighbors[local] \cap AddressesOf(local) = {}

\* a link joins the node to an interface that the node at its far end lacks
HasDanglingLink(name) == \E e \in FarEnds(name) : ~HasIface(e)

\* C15: a node with a link that names an interface missing on the referenced
\* node gets no neighbor set: resolution stops with an error instead.
C15_DanglingLinkFails ==
    \A local \in DOMAIN neighbors :
        NodeByName(local).asn # NoAsn => ~HasDanglingLink(local)

\* C16: in a validated topology any two writes made for one neighbor IP
\* while resolving a node carry the same remote ASN and the same session
\* type, and the neighbor set holds one edge for that IP with that ASN and
\* type, whichever write comes last.
C16_DerivationsAgree ==
    TopologyValid =>
        \A local \in DOMAIN derivations :
            LET ws == derivations[local]
            IN  /\ \A k, m \in DOMAIN ws :
                      ws[k].ip = ws[m].ip =>
                          /\ ws[k].remote_as = ws[m].remote_as
                          /\ ws[k].type = ws[m].type
                /\ DOMAIN neighbors[local] = {ws[k].ip : k \in DOMAIN ws}
                /\ \A k \in DOMAIN ws :
                      /\ neighbors[local][ws[k].ip].remote_as = ws[k].remote_as
                      /\ neighbors[local][ws[k].ip].type = ws[k].type

C16_Witness ==
    /\ b_pc = "done"
    /\ TopologyValid
    /\ \E k, m \in DOMAIN derivations["pe1"] :
          /\ k < m
          /\ derivations["pe1"][k].ip = derivations["pe1"][m].ip
          /\ derivations["pe1"][k].description # derivations["pe1"][m].description

-----------------------------------------------------------------------------
(* Properties of the optimizers and of the aggregation (SpecOpt)           *)

OptRows == Len(o_matrix)
OptCols == Len(o_matrix[1])
OptCells == 1..(OptRows * OptCols)

\* the volume of the k-th cell of o_matrix, counting row by row
CellVolume(k) == o_matrix[((k - 1) \div OptCols) + 1][((k - 1) % OptCols) + 1]

\* the total volume of the cells 1..n that the assignment gives to `choice`
RECURSIVE LoadOf(_, _, _)
LoadOf(assignment, choice, n) ==
    IF n = 0 THEN 0
    ELSE LoadOf(assignment, choice, n - 1)
         + (IF assignment[n] = choice THEN CellVolume(n) ELSE 0)

\* the assignments of the non-zero cells to the choices 1 and 2
Assignments ==
    {a \in [OptCells -> 0..2] : \A k \in OptCells : a[k] = 0 <=> CellVolume(k) = 0}

\* C17: the vector each optimizer returns has one entry per cell of the
\* input, row by row, every entry is 0, 1 or 2, and an entry is 0 exactly
\* when the volume of its cell is 0.
C17_AssignmentVectorShape ==
    /\ o_pc \in {"aggregate", "egress", "done", "raised"} => o_vec_pe \in Assignments
    /\ o_pc = "done" => o_vec_gw \in Assignments

C17_Witness ==
    /\ o_pc = "done"
    /\ o_matrix = <<<<0, 2>>, <<1, 0>>>>
    /\ o_vec_pe = <<0, 1, 2, 0>>
    /\ o_vec_gw = <<0, 2, 1, 0>>

Imbalance2(a) ==
    LET d == LoadOf(a, 1, OptRows * OptCols) - LoadOf(a, 2, OptRows * OptCols)
    IN  IF d < 0 THEN 0 - d ELSE d

\* C18: the ingress assignment attains the least |load(PE1) - load(PE2)| of
\* all assignments of the non-zero cells to the two PEs; for the volumes
\* [100, 100] that is 0 and for [300] it is 300.
C18_IngressMinimizesImbalance ==
    o_pc \in {"aggregate", "egress", "done", "raised"} =>
        /\ \A a \in Assignments : Imbalance2(o_vec_pe) <= Imbalance2(a)
        /\ o_matrix = <<<<1, 1>>>> => Imbalance2(o_vec_pe) = 0
        /\ o_matrix = <<<<3>>>> => Imbalance2(o_vec_pe) = 3

C18_Witness ==
    /\ o_pc = "aggregate"
    /\ o_matrix = <<<<2, 1>>, <<1, 2>>>>
    /\ Imbalance2(o_vec_pe) = 0
    /\ \E a \in Assignments : Imbalance2(a) > 0

\* max(load(GW1)/cap1, load(GW2)/cap2) of assignment a is at most that of b
WorstSaturationLe(a, b) ==
    LET n  == OptRows * OptCols
        le(p1, q1, p2, q2) == p1 * q2 <= p2 * q1     \* p1/q1 <= p2/q2
        a1 == LoadOf(a, 1, n)
        a2 == LoadOf(a, 2, n)
        b1 == LoadOf(b, 1, n)
        b2 == LoadOf(b, 2, n)
    IN  /\ le(a1, o_caps[1], b1, o_caps[1]) \/ le(a1, o_caps[1], b2, o_caps[2])
        /\ le(a2, o_caps[2], b1, o_caps[1]) \/ le(a2, o_caps[2], b2, o_caps[2])

\* C19: with positive capacities the egress assignment attains the least
\* max(load(GW1)/cap1, load(GW2)/cap2) of all assignments of the non-zero
\* cells to the two gateways; for the loads [800, 200] with cap1 = 1000 and
\* cap2 = 500 it puts 800 on GW1 and 200 on GW2.
C19_EgressMinimizesSaturation ==
    (o_pc = "done" /\ o_caps[1] > 0 /\ o_caps[2] > 0) =>
        /\ \A a \in Assignments : WorstSaturationLe(o_vec_gw, a)
        /\ (o_matrix = <<<<8, 2>>>> /\ o_caps = <<10, 5>>) => o_vec_gw = <<1, 2>>

C19_Witness ==
    /\ o_pc = "done"
    /\ o_matrix = <<<<8, 2>>>>
    /\ o_caps = <<10, 5>>
    /\ o_vec_gw = <<1, 2>>

\* the volume of column j that the ingress vector gives to `choice`, rows 1..n
RECURSIVE ColumnLoad(_, _, _)
ColumnLoad(choice, j, n) ==
    IF n = 0 THEN 0
    ELSE ColumnLoad(choice, j, n - 1)
         + (IF o_vec_pe[(n - 1) * OptCols + j] = choice THEN o_matrix[n][j] ELSE 0)

RECURSIVE ColumnTotal(_, _)
ColumnTotal(j, n) == IF n = 0 THEN 0 ELSE ColumnTotal(j, n - 1) + o_matrix[n][j]

RECURSIVE GrandTotal(_, _)
GrandTotal(m, j) == IF j = 0 THEN 0 ELSE GrandTotal(m, j - 1) + SeqSum([r \in DOMAIN m |-> m[r][j]])

\* C20: the aggregate has two rows; for every destination column its first
\* row is the volume assigned to choice 1 and its second row the volume
\* assigned to choice 2, the two add up to the column of the demand, and the
\* total of the aggregate is the total of the demand.
C20_AggregateConservesVolume ==
    o_pc \in {"egress", "done", "raised"} =>
        /\ Len(o_agg) = 2
        /\ \A j \in 1..OptCols :
              /\ o_agg[1][j] = ColumnLoad(1, j, OptRows)
              /\ o_agg[2][j] = ColumnLoad(2, j, OptRows)
              /\ o_agg[1][j] + o_agg[2][j] = ColumnTotal(j, OptRows)
        /\ GrandTotal(o_agg, OptCols) = GrandTotal(o_matrix, OptCols)

C20_Witness ==
    /\ o_pc = "egress"
    /\ o_matrix = <<<<2, 2>>, <<2, 2>>>>
    /\ o_vec_pe = <<1, 2, 1, 2>>
    /\ o_agg = <<<<4, 0>>, <<0, 4>>>>

-----------------------------------------------------------------------------
(* Properties of the directives of one run (Spec)                          *)

\* the loop of step 4 is over
MedLoopDone == pc \in {"STEP6", "STEP7", "DONE"} \/ (pc = "ABORTED" /\ failure = "egress")

\* the calls of the run made with these arguments
CallsFor(attr, node, neighbor, destination) ==
    {k \in DOMAIN emitted :
        /\ emitted[k].attr = attr
        /\ emitted[k].node = node
        /\ emitted[k].neighbor = neighbor
        /\ emitted[k].destination = destination}

\* C21: once the MED loop is over, every (source, destination) cell with a
\* non-zero ingress assignment has exactly one MED call on each PE's session
\* with the source, and a cell assigned 0 has none; once the run is done the
\* same holds for the Local Preference calls of every (PE, destination) cell
\* and the two gateways.
C21_TwoDirectivesPerActiveCell ==
    /\ MedLoopDone =>
          \A i \in DOMAIN Sources : \A j \in DOMAIN Destinations :
              \A pe \in {"pe1", "pe2"} :
                  Cardinality(CallsFor("med", pe, Sources[i], Destinations[j]))
                      = IF dec_matrix_ce_pe[i][j] # 0 THEN 1 ELSE 0
    /\ MedLoopDone => Cardinality(EmittedOf("med"))
                          = 2 * Cardinality(NonZeroCells(dec_matrix_ce_pe))
    /\ pc = "DONE" =>
          /\ \A i \in DOMAIN Pes : \A j \in DOMAIN Destinations :
                 \A gw \in {"gw1", "gw2"} :
                     Cardinality(CallsFor("local_pref", Pes[i], gw, Destinations[j]))
                         = IF dec_matrix_pe_gw[i][j] # 0 THEN 1 ELSE 0
          /\ Cardinality(EmittedOf("local_pref"))
                 = 2 * Cardinality(NonZeroCells(dec_matrix_pe_gw))

C21_Witness ==
    /\ pc = "DONE"
    /\ Len(emitted) = 8
    /\ dec_matrix_ce_pe = <<<<0, 1>>, <<2, 0>>>>
    /\ dec_matrix_pe_gw = <<<<0, 1>>, <<2, 0>>>>

C23_PreferredSequenceFirst ==
    MedLoopDone =>
        \A c \in NonZeroCells(raw_matrix) :
            LET chosen == IF dec_matrix_ce_pe[c[1]][c[2]] = 1 THEN "pe1" ELSE "pe2"
                other  == IF dec_matrix_ce_pe[c[1]][c[2]] = 1 THEN "pe2" ELSE "pe1"
            IN  \A a \in CallsFor("med", chosen, Sources[c[1]], Destinations[c[2]]) :
                \A b \in CallsFor("med", other, Sources[c[1]], Destinations[c[2]]) :
                    emitted[a].seq < emitted[b].seq

\* C28: every soft reset belongs to a call whose batch was accepted, goes to
\* the neighbor of that call's session and has direction out for a MED call
\* and in for a Local Preference call; a call whose batch failed has no soft
\* reset, and an accepted batch has exactly one.
C28_SoftResetFollowsBatch ==
    /\ \A i \in DOMAIN soft_resets :
          LET r == soft_resets[i]
              d == emitted[r.call]
          IN  /\ r.call \in applied
              /\ r.direction = (IF d.attr = "med" THEN "out" ELSE "in")
              /\ r.container = d.node
              /\ r.neighbor_ip =
                    (IF d.attr = "med" THEN get_bgp_config(topo, d.node, d.neighbor)
                     ELSE get_local_config(topo, d.node, d.neighbor)).neighbor_ip
    /\ \A f \in failed :
          f.why = "batch" => \A i \in DOMAIN soft_resets : soft_resets[i].call # f.call
    /\ \A k \in applied :
          Cardinality({i \in DOMAIN soft_resets : soft_resets[i].call = k}) = 1

C28_Witness ==
    /\ pc = "DONE"
    /\ \E f \in failed : f.why = "batch" /\ f.call < Len(emitted)
    /\ \E i, j \in DOMAIN soft_resets :
          soft_resets[i].direction = "out" /\ soft_resets[j].direction = "in"

\* the session lookup of the call d, as set_med / set_local_pref make it
SessionOf(d) ==
    IF d.attr = "med" THEN get_bgp_config(topo, d.node, d.neighbor)
    ELSE get_local_config(topo, d.node, d.neighbor)

DirectionOf(d) == IF d.attr = "med" THEN "out" ELSE "in"

\* in the batch `cmds` sent to a router in configuration r, every neighbor
\* statement finds on the router the catch-all entry of the route-map it
\* attaches and an entry of that route-map with a match and a set clause,
\* both defined by commands of this batch
AttachComesLast(r, cmds) ==
    \A n \in DOMAIN cmds :
        cmds[n].op = "neighbor route-map" =>
            LET before == RunCommands(r, cmds, n - 1).route_maps
            IN  /\ \E e \in before : e.name = cmds[n].name /\ e.seq = CatchAllSeq
                /\ \E e \in before :
                      e.name = cmds[n].name /\ e.seq # CatchAllSeq
                      /\ e.match # <<>> /\ e.set # <<>>
                /\ \E m \in 1..(n - 1) :
                      cmds[m].op = "route-map" /\ cmds[m].name = cmds[n].name
                      /\ cmds[m].seq = CatchAllSeq
                /\ \E m \in 1..(n - 1) :
                      cmds[m].op = "route-map" /\ cmds[m].name = cmds[n].name
                      /\ cmds[m].seq # CatchAllSeq

\* C27: in the batch of the call just made, the neighbor statement that
\* attaches the route-map is executed only after the prefix-specific entry and
\* the catch-all entry (permit 65535) of that route-map were defined, even on
\* a router that had neither before; and wherever a route-map is attached on
\* a router, both entries are there. (Every call is the call just made in
\* some reachable state.)
C27_AttachAfterEntries ==
    /\ \A k \in DOMAIN emitted :
          (/\ k = Len(emitted)
           /\ get_ipv4_address(topo, emitted[k].destination) # NoAddr
           /\ SessionOf(emitted[k]).err = "")
          => AttachComesLast(NoConfig, BatchOf(emitted[k], SessionOf(emitted[k]),
                                               DirectionOf(emitted[k])))
    /\ \A c \in DOMAIN routers : \A a \in routers[c].attached :
          /\ \E e \in routers[c].route_maps :
                e.name = a.route_map /\ e.seq = CatchAllSeq
          /\ \E e \in routers[c].route_maps :
                e.name = a.route_map /\ e.seq # CatchAllSeq /\ e.match # <<>>

C27_Witness ==
    \E c \in DOMAIN routers : \E a, b \in routers[c].attached :
        /\ a.direction = "out" /\ b.direction = "in"
        /\ \A x \in {a, b} :
              /\ \E e \in routers[c].route_maps :
                    e.name = x.route_map /\ e.seq = CatchAllSeq /\ e.match = <<>>
              /\ \E e \in routers[c].route_maps :
                    e.name = x.route_map /\ e.seq < CatchAllSeq /\ e.match # <<>>

\* the addresses of the gateway under which build_configs.py enters a
\* neighbor in the configuration of the PE
ResolverAddresses(pe, gw) ==
    LET writes == NeighborWrites(topo, NodeByName(pe))
        gw_ips == {NodeByName(gw).interfaces[m].ipv4_address :
                      m \in DOMAIN NodeByName(gw).interfaces}
    IN  {writes[k].ip : k \in {n \in DOMAIN writes : writes[n].ip \in gw_ips}}

\* C30: for every Local Preference batch accepted by a PE, the neighbor
\* address the route-map is attached on (and the soft reset is sent to) is
\* the address under which the adjacency resolver configures that PE's iBGP
\* session with that gateway.
C30_LpNeighborIsResolverNeighbor ==
    \A i \in DOMAIN soft_resets :
        soft_resets[i].direction = "in" =>
            LET d == emitted[soft_resets[i].call]
            IN  /\ ResolverAddresses(d.node, d.neighbor) = {soft_resets[i].neighbor_ip}
                /\ \E a \in ConfigOf(d.node).attached :
                      /\ a.direction = "in"
                      /\ a.neighbor \in ResolverAddresses(d.node, d.neighbor)
                      /\ a.route_map = RouteMapName("RM_LP_IN", a.neighbor)

-----------------------------------------------------------------------------
(* Properties of repeated runs against the same routers (SpecRuns)         *)

\* two calls configure the same route-map of the same session
SameSession(a, b) ==
    /\ emitted[a].attr = emitted[b].attr
    /\ emitted[a].node = emitted[b].node
    /\ emitted[a].neighbor = emitted[b].neighbor

\* C24: over all the runs made so far, the sequence numbers of the calls sent
\* to one session strictly increase in the order of the calls, so that no
\* (session, sequence number) pair is used twice, within a run or across runs.
C24_SequenceNumbersIncrease ==
    \A a, b \in DOMAIN emitted :
        (a < b /\ SameSession(a, b)) => emitted[a].seq < emitted[b].seq

\* the route-map entry matches the prefix: it has no match clause, or its
\* prefix-list permits the prefix
EntryMatches(r, e, prefix) ==
    \/ e.match = <<>>
    \/ \E p \in r.prefix_lists : p.name = e.match /\ p.prefix = prefix

\* the entries of the route-map that match the prefix and have no matching
\* entry of lower sequence number before them (route-maps are first-match)
FirstMatches(r, route_map, prefix) ==
    {e \in r.route_maps :
        /\ e.name = route_map
        /\ EntryMatches(r, e, prefix)
        /\ \A f \in r.route_maps :
              (f.name = route_map /\ EntryMatches(r, f, prefix)) => e.seq <= f.seq}

\* the MED the latest run gave to the PE for the flow of cell c
LatestMed(pe_idx, c) ==
    IF dec_matrix_ce_pe[c[1]][c[2]] = pe_idx THEN default_med ELSE default_med + 100

C29_MatrixFromSameRun ==
    dec_matrix_ce_pe # <<>> => traffic_json.timestamp = run

-----------------------------------------------------------------------------
(* Termination of one run (SpecLive)                                       *)

====
